---- MODULE Spec2Model ----
(***************************************************************************)
(* better-svelte-router: the guard pipeline (guards.ts), the mode adapters *)
(* (router-mode.ts), the URL state (router-state.svelte.ts) and the        *)
(* navigation orchestrator (navigation.ts), as one state machine.          *)
(*                                                                         *)
(* Strings are sequences of one-character strings, so that the string      *)
(* operations of the adapters (replace, slice, split, indexOf, template    *)
(* concatenation) are computed and not assumed.                            *)
(***************************************************************************)
EXTENDS Integers, Sequences, FiniteSets, TLC

(***************************************************************************)
(* Bounds of the model.                                                    *)
(***************************************************************************)
\* longest before-guard registry explored
MaxGuards == 3
\* longest after-hook registry the navigations are explored with
MaxHooks == 1
\* longest session history the application is started with
MaxHist == 2

(***************************************************************************)
(* Strings.                                                                *)
(***************************************************************************)
Empty == << >>

\* String.prototype.startsWith, at position i (1-based)
OccursAt(s, t, i) ==
    /\ i + Len(t) - 1 <= Len(s)
    /\ \A k \in 1..Len(t) : s[i + k - 1] = t[k]

\* String.prototype.indexOf, 1-based; 0 when t does not occur in s.  The
\* receiver and the argument are values (str, sub), evaluated once.
IndexOf(s, t) ==
    CHOOSE r \in
        { IF \E i \in 1..(Len(str) + 1) : OccursAt(str, sub, i)
          THEN CHOOSE i \in 1..(Len(str) + 1) :
                  /\ OccursAt(str, sub, i)
                  /\ \A j \in 1..(i - 1) : ~OccursAt(str, sub, j)
          ELSE 0 : str \in {s}, sub \in {t} } : TRUE

\* s.slice(i) with a 0-based i, as JavaScript counts
SliceFrom(s, i) == SubSeq(s, i + 1, Len(s))

\* s.replace(t, ''): the first occurrence of the string t is removed
ReplaceFirst(s, t) ==
    LET i == IndexOf(s, t)
    IN  IF i = 0 THEN s
        ELSE SubSeq(s, 1, i - 1) \o SubSeq(s, i + Len(t), Len(s))

\* s.split('?')[0]
BeforeFirst(s, c) ==
    LET i == IndexOf(s, <<c>>)
    IN  IF i = 0 THEN s ELSE SubSeq(s, 1, i - 1)

\* s || '/'
OrRoot(s) == IF s = Empty THEN <<"/">> ELSE s

\* the elements of a finite set of integers, ascending
Ascending(S) ==
    [k \in 1..Cardinality(S) |->
        CHOOSE i \in S : Cardinality({j \in S : j < i}) = k - 1]

\* s.split('/')
SplitSlash(s) ==
    LET cuts == Ascending({i \in 1..Len(s) : s[i] = "/"})
        n == Len(cuts)
        from(k) == IF k = 1 THEN 1 ELSE cuts[k - 1] + 1
        to(k) == IF k = n + 1 THEN Len(s) ELSE cuts[k] - 1
    IN  [k \in 1..(n + 1) |-> SubSeq(s, from(k), to(k))]

\* "/" before every segment
RECURSIVE JoinSegments(_)
JoinSegments(segs) ==
    IF segs = << >> THEN Empty
    ELSE <<"/">> \o Head(segs) \o JoinSegments(Tail(segs))

(***************************************************************************)
(* The paths and queries the navigation calls are made with.               *)
(***************************************************************************)
Root == <<"/">>
Admin == <<"/", "a", "d", "m", "i", "n">>
Login == <<"/", "l", "o", "g", "i", "n">>
AppBase == <<"/", "a", "p", "p">>

\* targets of push / replace
Targets == {Admin, Login}

\* query arguments: a missing argument (NoQuery), or the entries of the object
\* in key order, each value a string, a number, a boolean or one of the
\* absent values
NoQuery == [given |-> FALSE, entries |-> << >>]
Undefined == [t |-> "undefined", s |-> << >>, n |-> 0, b |-> FALSE]
NullValue == [t |-> "null", s |-> << >>, n |-> 0, b |-> FALSE]
StringValue(s) == [t |-> "string", s |-> s, n |-> 0, b |-> FALSE]
NumberValue(n) == [t |-> "number", s |-> << >>, n |-> n, b |-> FALSE]
BooleanValue(b) == [t |-> "boolean", s |-> << >>, n |-> 0, b |-> b]
EmptyQuery == [given |-> TRUE, entries |-> << >>]
OneQuery ==
    [given |-> TRUE, entries |-> <<[key |-> <<"q">>, value |-> StringValue(<<"1">>)]>>]
Queries == {NoQuery, OneQuery}

(***************************************************************************)
(* The environment: window.location and the session history.               *)
(***************************************************************************)
Origin == <<"h", "t", "t", "p", ":", "/", "/", "x">>

VARIABLES
    entries,        \* session history: sequence of URLs [pathname, search, hash]
    idx,            \* index of the current entry in entries
    pendingEvents,  \* events the environment has queued for dispatch
    currentAdapter, \* router-mode.ts: the singleton adapter, or Null
    listener,       \* router-state: the event kind the URL state listens to
    href,           \* router-state: #href
    beforeGuards,   \* guards.ts: registry of before-guards
    afterHooks,     \* guards.ts: registry of after-hooks
    nav,            \* the calls of push, replace, runGuards, runAfterHooks
    call            \* the latest synchronous call of the API and what it returned

vars == <<entries, idx, pendingEvents, currentAdapter, listener,
          href, beforeGuards, afterHooks, nav, call>>

envVars == <<entries, idx, pendingEvents>>

\* no synchronous call has been made
NoCall == [op |-> "none"]

\* no adapter has been created
Null == [mode |-> "null", base |-> << >>]

\* window.location
Location == entries[idx]

\* window.location.href
LocationHref(u) == Origin \o u.pathname \o u.search \o u.hash

\* The URL parser percent-encodes the characters that may not stand in a URL
\* as they are: of the characters of the model, the space.
RECURSIVE UrlEscapeFrom(_, _)
UrlEscapeFrom(s, i) ==
    IF i > Len(s) THEN Empty
    ELSE (IF s[i] = " " THEN <<"%", "2", "0">> ELSE <<s[i]>>) \o UrlEscapeFrom(s, i + 1)

UrlEscape(s) == CHOOSE r \in {UrlEscapeFrom(str, 1) : str \in {s}} : TRUE

\* The URL parser drops the "." segments of a path and, for a ".." segment,
\* the segment before it; a path that ends with one of them ends with "/".
RECURSIVE ShortenPath(_, _)
ShortenPath(segs, out) ==
    IF segs = << >> THEN out
    ELSE LET seg == Head(segs)
             kept == IF seg = <<".">> THEN out
                     ELSE IF seg = <<".", ".">>
                          THEN SubSeq(out, 1, Len(out) - 1)
                          ELSE out \o <<seg>>
             dots == seg = <<".">> \/ seg = <<".", ".">>
         IN  ShortenPath(Tail(segs),
                         IF dots /\ Len(segs) = 1 THEN kept \o <<Empty>> ELSE kept)

\* the path of a URL as the parser stores it
UrlPath(path) ==
    CHOOSE r \in
        { UrlEscape(IF \E i \in 1..Len(p) : p[i] = "."
                    THEN JoinSegments(ShortenPath(Tail(SplitSlash(p)), << >>))
                    ELSE p) : p \in {OrRoot(path)} } : TRUE

\* The URL parser, on an absolute URL of this origin: the fragment starts at
\* the first "#", the query at the first "?" before it; an empty path is "/";
\* location.search and location.hash are empty for a bare "?" or "#".
ParseUrl(s) ==
    CHOOSE u \in
        { LET h == IndexOf(rest, <<"#">>)
              noFrag == IF h = 0 THEN rest ELSE SubSeq(rest, 1, h - 1)
              frag == IF h = 0 THEN Empty ELSE SubSeq(rest, h, Len(rest))
              q == IndexOf(noFrag, <<"?">>)
              path == IF q = 0 THEN noFrag ELSE SubSeq(noFrag, 1, q - 1)
              query == IF q = 0 THEN Empty ELSE SubSeq(noFrag, q, Len(noFrag))
          IN  [pathname |-> UrlPath(path),
               search |-> IF Len(query) = 1 THEN Empty ELSE UrlEscape(query),
               hash |-> IF Len(frag) = 1 THEN Empty ELSE UrlEscape(frag)]
          : rest \in {SliceFrom(s, Len(Origin))} } : TRUE

\* history.pushState(state, '', url): the entries after the current one are
\* dropped and the new one appended; no event is fired
PushState(es, i, url) ==
    [entries |-> SubSeq(es, 1, i) \o <<ParseUrl(url)>>, idx |-> i + 1, events |-> {}]

\* history.replaceState(state, '', url): the current entry is overwritten
ReplaceState(es, i, url) ==
    [entries |-> [es EXCEPT ![i] = ParseUrl(url)], idx |-> i, events |-> {}]

\* location.hash = value: a single leading "#" is dropped; nothing happens
\* when the fragment is the current one; otherwise a fragment navigation
\* appends an entry and queues the change events
SetLocationHash(es, i, value) ==
    LET frag == IF Len(value) > 0 /\ value[1] = "#" THEN Tail(value) ELSE value
        newHash == IF frag = Empty THEN Empty ELSE <<"#">> \o UrlEscape(frag)
    IN  IF newHash = es[i].hash
        THEN [entries |-> es, idx |-> i, events |-> {}]
        ELSE [entries |-> SubSeq(es, 1, i) \o <<[es[i] EXCEPT !.hash = newHash]>>,
              idx |-> i + 1,
              events |-> {"popstate", "hashchange"}]

(***************************************************************************)
(* router-mode.ts: the two adapters.  An adapter is [mode, base].          *)
(***************************************************************************)
\* base.replace(/\/$/, '')
StripTrailingSlash(base) ==
    IF Len(base) > 0 /\ base[Len(base)] = "/"
    THEN SubSeq(base, 1, Len(base) - 1)
    ELSE base

HistoryModeAdapter(base) == [mode |-> "history", base |-> StripTrailingSlash(base)]

HashModeAdapter(base) == [mode |-> "hash", base |-> Empty]

\* createRouterMode(config): the adapter that becomes the singleton
CreateRouterMode(config) ==
    IF config.mode = "hash"
    THEN HashModeAdapter(config.base)
    ELSE HistoryModeAdapter(config.base)

\* getRouterMode(): the singleton, created in history mode when there is none
GetRouterMode(adapter) ==
    IF adapter = Null THEN HistoryModeAdapter(Empty) ELSE adapter

\* a getCurrentPath whose hash adapter returns the fragment unsplit
GetCurrentPath_Unsplit(a, u) ==
    IF a.mode = "history"
    THEN OrRoot(IF a.base # Empty THEN ReplaceFirst(u.pathname, a.base) ELSE u.pathname)
    ELSE OrRoot(SliceFrom(u.hash, 1))

\* adapter.getCurrentPath(), reading the location u
GetCurrentPath(a, u) ==
    IF a.mode = "history"
    THEN OrRoot(IF a.base # Empty THEN ReplaceFirst(u.pathname, a.base) ELSE u.pathname)
    ELSE OrRoot(BeforeFirst(SliceFrom(u.hash, 1), "?"))

\* adapter.getCurrentSearch(), reading the location u
GetCurrentSearch(a, u) ==
    IF a.mode = "history"
    THEN u.search
    ELSE LET hash == SliceFrom(u.hash, 1)
             queryIndex == IndexOf(hash, <<"?">>)
         IN  IF queryIndex > 0 THEN SliceFrom(hash, queryIndex - 1) ELSE Empty

\* buildUrl without the base of the clean-path adapter
BuildUrl_NoBase(a, u, path, search) ==
    IF a.mode = "history"
    THEN Origin \o path \o search
    ELSE Origin \o u.pathname \o <<"#">> \o path \o search

\* adapter.buildUrl(path, search), at the location u
BuildUrl(a, u, path, search) ==
    IF a.mode = "history"
    THEN Origin \o a.base \o path \o search
    ELSE Origin \o u.pathname \o <<"#">> \o path \o search

\* adapter.push(path, search): the environment after it
AdapterPush(a, es, i, path, search) ==
    IF a.mode = "history"
    THEN PushState(es, i, BuildUrl(a, es[i], path, search))
    ELSE SetLocationHash(es, i, path \o search)

\* adapter.replace(path, search): the environment after it
AdapterReplace(a, es, i, path, search) ==
    ReplaceState(es, i, BuildUrl(a, es[i], path, search))

\* adapter.setupListener(callback): the event the callback is subscribed to
ListenerEvent(a) == IF a.mode = "history" THEN "popstate" ELSE "hashchange"

(***************************************************************************)
(* navigation.ts: buildSearchString.                                       *)
(***************************************************************************)
\* encodeURIComponent on one character
EncodeChar(c) ==
    CASE c = " " -> <<"%", "2", "0">>
      [] c = "&" -> <<"%", "2", "6">>
      [] c = "=" -> <<"%", "3", "D">>
      [] c = "?" -> <<"%", "3", "F">>
      [] c = "#" -> <<"%", "2", "3">>
      [] c = "/" -> <<"%", "2", "F">>
      [] OTHER -> <<c>>

RECURSIVE EncodeURIComponent(_)
EncodeURIComponent(s) ==
    IF s = Empty THEN Empty ELSE EncodeChar(Head(s)) \o EncodeURIComponent(Tail(s))

\* the decimal digits of a natural number
RECURSIVE Digits(_)
Digits(n) ==
    LET digit == <<"0", "1", "2", "3", "4", "5", "6", "7", "8", "9">>[(n % 10) + 1]
    IN  IF n < 10 THEN <<digit>> ELSE Digits(n \div 10) \o <<digit>>

\* String(value)
StringOf(value) ==
    CASE value.t = "string" -> value.s
      [] value.t = "number" -> Digits(value.n)
      [] value.t = "boolean" ->
            IF value.b THEN <<"t", "r", "u", "e">> ELSE <<"f", "a", "l", "s", "e">>
      [] value.t = "undefined" -> <<"u", "n", "d", "e", "f", "i", "n", "e", "d">>
      [] value.t = "null" -> <<"n", "u", "l", "l">>

\* a filter that keeps the truthy values only
Kept_Truthy(value) ==
    \/ value.t = "string" /\ value.s # Empty
    \/ value.t = "number" /\ value.n # 0
    \/ value.t = "boolean" /\ value.b

\* the filter: the value is neither undefined nor null
Kept(value) == value.t # "undefined" /\ value.t # "null"

\* the entries kept by the filter, encoded as key=value
RECURSIVE QueryEntries(_)
QueryEntries(es) ==
    IF es = << >> THEN << >>
    ELSE LET e == Head(es)
         IN  IF ~Kept(e.value)
             THEN QueryEntries(Tail(es))
             ELSE <<EncodeURIComponent(e.key) \o <<"=">>
                        \o EncodeURIComponent(StringOf(e.value))>>
                      \o QueryEntries(Tail(es))

\* entries.join('&')
RECURSIVE Join(_)
Join(parts) ==
    IF parts = << >> THEN Empty
    ELSE IF Len(parts) = 1 THEN Head(parts)
    ELSE Head(parts) \o <<"&">> \o Join(Tail(parts))

buildSearchString(query) ==
    IF ~query.given THEN Empty
    ELSE LET kept == QueryEntries(query.entries)
         IN  IF Len(kept) > 0 THEN <<"?">> \o Join(kept) ELSE Empty

(***************************************************************************)
(* guards.ts: guards, hooks and what they yield.                           *)
(*                                                                         *)
(* A guard is a callback: what it yields is an input of the pipeline.  The *)
(* guards g1, g2, ... are arbitrary functions (every invocation may yield  *)
(* any outcome); toLogin and auth are the two guards of the end-to-end     *)
(* scenario.                                                               *)
(***************************************************************************)
True == [k |-> "true", s |-> << >>]
False == [k |-> "false", s |-> << >>]
Void == [k |-> "undefined", s |-> << >>]
Str(s) == [k |-> "string", s |-> s]
\* the guard throws before returning
Throw == [k |-> "throw", s |-> << >>]
\* the promise the guard returned is rejected
Reject == [k |-> "reject", s |-> << >>]
\* no value yet
Pending == [k |-> "pending", s |-> << >>]

RedirectTargets == {Login, Admin}

AnyOutcome == {True, Void, False, Throw, Reject} \cup {Str(r) : r \in RedirectTargets}

GuardNames == <<"g1", "g2", "g3", "g4", "g5", "g6">>
HookNames == <<"h1", "h2", "h3", "h4", "h5">>

\* what the guard g may yield when invoked with (from, to)
Yields(g, from, to) ==
    CASE g = "toLogin" -> {Str(Login)}
      [] g = "auth" -> {IF to = Login THEN True ELSE Str(Login)}
      [] OTHER -> AnyOutcome

(***************************************************************************)
(* A call in progress.  pc is where the call is suspended:                 *)
(*   "guard"  runGuards awaits the promise of guard number gi              *)
(*   "resume" runGuards has returned; push / replace awaits its promise    *)
(*   "done"   the call's promise is settled with `result`                  *)
(* calls are the guard invocations of the current run of runGuards,        *)
(* settled the number of them whose outcome the loop has seen, last the    *)
(* latest of these outcomes; hooks are the after-hook invocations and      *)
(* hookErrors the hooks (by number) whose error console.error reported.    *)
(***************************************************************************)
Idle ==
    [pc |-> "idle", op |-> "none", to |-> Empty, query |-> NoQuery, from |-> Empty,
     adapter |-> Null, gi |-> 0, calls |-> << >>, settled |-> 0, last |-> Pending,
     guardResult |-> Pending, result |-> "none", hooks |-> << >>, hookErrors |-> {},
     origTo |-> Empty, origQuery |-> NoQuery, redirected |-> FALSE]

\* runGuards returns (or throws) v: its promise settles, and the caller that
\* awaits it is scheduled; a direct call of runGuards is over
Returned(r, v) ==
    IF r.op = "runGuards"
    THEN [r EXCEPT !.pc = "done", !.gi = 0, !.guardResult = v,
                   !.result = IF v.k = "throw" THEN "rejected" ELSE v.k]
    ELSE [r EXCEPT !.pc = "resume", !.gi = 0, !.guardResult = v]

\* mutant: `result === false` is not tested
GuardVerdict_IgnoreFalse(o) ==
    IF o.k = "string" THEN [return |-> TRUE, value |-> o]
    ELSE IF o.k \in {"throw", "reject"} THEN [return |-> TRUE, value |-> False]
    ELSE [return |-> FALSE, value |-> True]

\* mutant: `typeof result === 'string'` is not tested
GuardVerdict_IgnoreString(o) ==
    IF o.k = "false" THEN [return |-> TRUE, value |-> False]
    ELSE IF o.k \in {"throw", "reject"} THEN [return |-> TRUE, value |-> False]
    ELSE [return |-> FALSE, value |-> True]

\* mutant: no try / catch around the guard, its error leaves runGuards
GuardVerdict_NoCatch(o) ==
    IF o.k = "false" THEN [return |-> TRUE, value |-> False]
    ELSE IF o.k = "string" THEN [return |-> TRUE, value |-> o]
    ELSE IF o.k \in {"throw", "reject"} THEN [return |-> TRUE, value |-> Throw]
    ELSE [return |-> FALSE, value |-> True]

\* runGuards, lines 86-100: what the loop does with what guard(from, to)
\* yielded; the catch clause turns an error into `return false`
GuardVerdict(o) ==
    IF o.k = "false" THEN [return |-> TRUE, value |-> False]
    ELSE IF o.k = "string" THEN [return |-> TRUE, value |-> o]
    ELSE IF o.k \in {"throw", "reject"} THEN [return |-> TRUE, value |-> False]
    ELSE [return |-> FALSE, value |-> True]

\* mutant: the loop stops one guard early
HasGuard_OffByOne(guards, i) == i < Len(guards)

\* runGuards, line 81: the iterator of `for (const guard of beforeGuards)`
\* reads the live array; is there an element number i?
HasGuard(guards, i) == i <= Len(guards)

\* runGuards from the loop's iteration number i on, up to the next
\* suspension: the guard is invoked; if it throws at once (throws) the catch
\* clause returns, otherwise the loop awaits what it returned
RECURSIVE RunGuardsFrom(_, _, _, _)
RunGuardsFrom(r, i, guards, throws) ==
    IF ~HasGuard(guards, i) THEN Returned(r, True)
    ELSE LET called == [r EXCEPT !.calls = Append(@, [g |-> guards[i], from |-> r.from,
                                                      to |-> r.to])]
         IN  IF throws
             THEN LET v == GuardVerdict(Throw)
                      seen == [called EXCEPT !.settled = @ + 1, !.last = Throw]
                  IN  IF v.return THEN Returned(seen, v.value)
                      ELSE RunGuardsFrom(seen, i + 1, guards, FALSE)
             ELSE [called EXCEPT !.pc = "guard", !.gi = i]

\* may guard number i of the registry throw at once on (from, to)?
MayThrow(guards, i, from, to) ==
    HasGuard(guards, i) /\ Throw \in Yields(guards[i], from, to)

\* runGuards resumes with what the awaited guard yielded
GuardSettled(r, o, guards, throws) ==
    LET seen == [r EXCEPT !.settled = @ + 1, !.last = o]
        v == GuardVerdict(o)
    IN  IF v.return THEN Returned(seen, v.value)
        ELSE RunGuardsFrom(seen, r.gi + 1, guards, throws)

\* mutant: no try / catch around the hook, its error leaves runAfterHooks
HookOutcome_NoCatch(threw) == IF threw THEN "propagated" ELSE "returned"

\* runAfterHooks, lines 118-123: what becomes of the call hook(from, to); the
\* catch clause reports the error and the loop goes on
HookOutcome(threw) == IF threw THEN "logged" ELSE "returned"

\* runAfterHooks(from, to) from hook number i on: hook i is invoked, and the
\* loop goes on unless an error of hook i (i \in throwers) leaves the
\* function.  The log keeps what each hook was given and what it could
\* observe.
RECURSIVE RunAfterHooksFrom(_, _, _, _, _, _, _)
RunAfterHooksFrom(hooks, i, from, to, throwers, hrefSeen, urlSeen) ==
    IF i > Len(hooks) THEN << >>
    ELSE <<[h |-> hooks[i], from |-> from, to |-> to, href |-> hrefSeen,
            url |-> urlSeen]>>
         \o IF HookOutcome(i \in throwers) = "propagated" THEN << >>
            ELSE RunAfterHooksFrom(hooks, i + 1, from, to, throwers, hrefSeen, urlSeen)

\* the hooks whose error console.error reported, line 122
HookErrorsLogged(hooks, throwers) ==
    {i \in 1..Len(hooks) : HookOutcome(i \in throwers) = "logged"}

\* does an error of a hook leave runAfterHooks?
HookErrorPropagates(hooks, throwers) ==
    \E i \in 1..Len(hooks) : HookOutcome(i \in throwers) = "propagated"

runAfterHooks(hooks, from, to, throwers, hrefSeen, urlSeen) ==
    RunAfterHooksFrom(hooks, 1, from, to, throwers, hrefSeen, urlSeen)

(***************************************************************************)
(* navigation.ts: push and replace.                                        *)
(***************************************************************************)
\* push / replace, lines 66-70: the adapter and `from` are captured, and
\* runGuards runs up to its first suspension
NavStart(r, op, to, query, adapter, loc, guards, throws) ==
    LET a == GetRouterMode(adapter)
        started == [r EXCEPT !.pc = "guard", !.op = op, !.to = to, !.query = query,
                             !.adapter = a, !.from = GetCurrentPath(a, loc),
                             !.gi = 0, !.calls = << >>, !.settled = 0, !.last = Pending,
                             !.guardResult = Pending]
    IN  RunGuardsFrom(started, 1, guards, throws)

\* the outermost call of push / replace
NavCall(op, to, query, adapter, loc, guards, throws) ==
    NavStart([Idle EXCEPT !.origTo = to, !.origQuery = query],
             op, to, query, adapter, loc, guards, throws)

\* a push / replace that leaves the location alone when another navigation
\* has changed it since the call started
AdapterWrite_Serialized(r, es, i, search) ==
    IF GetCurrentPath(r.adapter, es[i]) # r.from
    THEN [entries |-> es, idx |-> i, events |-> {}]
    ELSE IF r.op = "push"
    THEN AdapterPush(r.adapter, es, i, r.to, search)
    ELSE AdapterReplace(r.adapter, es, i, r.to, search)

\* lines 86 / 134: adapter.push or adapter.replace
AdapterWrite(r, es, i, search) ==
    IF r.op = "push"
    THEN AdapterPush(r.adapter, es, i, r.to, search)
    ELSE AdapterReplace(r.adapter, es, i, r.to, search)

\* mutant: `guardResult === false` is not tested
Decision_IgnoreCancel(guardResult) ==
    IF guardResult.k = "throw" THEN "reject"
    ELSE IF guardResult.k = "string" THEN "redirect"
    ELSE "commit"

\* what push / replace does with the result of runGuards, lines 73-80
Decision(guardResult) ==
    IF guardResult.k = "throw" THEN "reject"
    ELSE IF guardResult.k = "false" THEN "cancel"
    ELSE IF guardResult.k = "string" THEN "redirect"
    ELSE "commit"

\* mutant: the after-hooks run before the URL state is updated
HrefSeenByHooks_Stale(oldHref, newHref) == oldHref

\* line 89 precedes line 92: the URL state the after-hooks can observe is the
\* one already updated
HrefSeenByHooks(oldHref, newHref) == newHref

\* mutant: the URL state is left to the change-event listener
HrefWritten_Skipped(oldHref, newHref) == oldHref

\* lines 89 / 137: routerState.href = window.location.href, in the same task
\* as the write of the adapter
HrefWritten(oldHref, newHref) == newHref

\* mutant: the redirect keeps the query of the call
RedirectQuery_Kept(r) == r.query

\* the query of the call the redirect makes: push(guardResult, {})
RedirectQuery(r) == EmptyQuery

\* push / replace from `await runGuards` to its end or its next suspension,
\* lines 72-94: st is [entries, idx, href, adapter]; the result is the call,
\* the environment, the events queued, the URL state and the singleton
NavResume(r, st, guards, hooks, throws, throwers) ==
    LET same == [r |-> r, entries |-> st.entries, idx |-> st.idx, events |-> {},
                 href |-> st.href, adapter |-> st.adapter]
        d == Decision(r.guardResult)
    IN  CASE d = "reject" ->
                [same EXCEPT !.r = [r EXCEPT !.pc = "done", !.result = "rejected"]]
          [] d = "cancel" ->
                [same EXCEPT !.r = [r EXCEPT !.pc = "done", !.result = "false"]]
          [] d = "redirect" ->
                [same EXCEPT
                    !.r = NavStart([r EXCEPT !.redirected = TRUE], r.op, r.guardResult.s,
                                   RedirectQuery(r), st.adapter, st.entries[st.idx],
                                   guards, throws),
                    !.adapter = GetRouterMode(st.adapter)]
          [] OTHER ->
                LET search == buildSearchString(r.query)
                    env == AdapterWrite(r, st.entries, st.idx, search)
                    newHref == LocationHref(env.entries[env.idx])
                    log == runAfterHooks(hooks, r.from, r.to, throwers,
                                         HrefSeenByHooks(st.href, newHref), newHref)
                IN  [r |-> [r EXCEPT !.pc = "done", !.hooks = log,
                                     !.hookErrors = HookErrorsLogged(hooks, throwers),
                                     !.result = IF HookErrorPropagates(hooks, throwers)
                                                THEN "rejected" ELSE "true"],
                     entries |-> env.entries, idx |-> env.idx, events |-> env.events,
                     href |-> HrefWritten(st.href, newHref), adapter |-> st.adapter]

(***************************************************************************)
(* router-state.svelte.ts: the listener of the URL state.                  *)
(***************************************************************************)
\* #setupListener: the callback is subscribed through the adapter of the moment
SetupListener(adapter) == ListenerEvent(GetRouterMode(adapter))

\* mutant: the callback does not read the location
OnEvents_Ignored(fired, subscribed, oldHref, loc) == oldHref

\* the callback: this.#href = window.location.href, when the event fired is
\* one the callback is subscribed to
OnEvents(fired, subscribed, oldHref, loc) ==
    IF subscribed \in fired THEN LocationHref(loc) ELSE oldHref

(***************************************************************************)
(* The state after construction and application start-up.                  *)
(***************************************************************************)
Configs ==
    {[mode |-> "history", base |-> Empty],
     [mode |-> "history", base |-> AppBase \o <<"/">>],
     [mode |-> "hash", base |-> Empty]}

\* the page the application is loaded at
InitialLocation(adapter) ==
    [pathname |-> adapter.base \o Root, search |-> Empty, hash |-> Empty]

\* the session history of n entries the page has when earlier navigations
\* of the application went to /admin, /login, /admin, ... in turn
RECURSIVE InitialHistory(_, _)
InitialHistory(adapter, n) ==
    IF n = 1 THEN <<InitialLocation(adapter)>>
    ELSE AdapterPush(adapter, InitialHistory(adapter, n - 1), n - 1,
                     IF n % 2 = 0 THEN Admin ELSE Login, Empty).entries

\* Importing router-state constructs the URL state, which creates the default
\* adapter and subscribes the listener; the application may then configure
\* a mode (createRouterMode), re-subscribe (reinitializeListener) and
\* register guards and hooks.  The page is at any entry of its history.
InitWith(guards, hooks) ==
    \E configured \in BOOLEAN, config \in Configs, reinit \in BOOLEAN,
       len \in 1..MaxHist :
      \E at \in 1..len :
        LET constructed == GetRouterMode(Null)
            adapter == IF configured THEN CreateRouterMode(config) ELSE constructed
            history == InitialHistory(adapter, len)
            loc == history[at]
        IN  /\ entries = history
            /\ idx = at
            /\ pendingEvents = {}
            /\ currentAdapter = adapter
            /\ listener = IF reinit THEN SetupListener(adapter)
                                     ELSE SetupListener(constructed)
            /\ href = LocationHref(loc)
            /\ beforeGuards = guards
            /\ afterHooks = hooks
            /\ nav = [t \in {1} |-> Idle]
            /\ call = NoCall

Init ==
    \E n \in 0..MaxGuards, m \in 0..MaxHooks :
        InitWith(SubSeq(GuardNames, 1, n), SubSeq(HookNames, 1, m))

(***************************************************************************)
(* Actions.                                                                *)
(***************************************************************************)
Navs == DOMAIN nav

\* the call number t has not been made yet
Callable(t) == nav[t].pc = "idle"

\* push(to, query) / replace(to, query), up to the first suspension
Navigate(t, op, to, query, throws) ==
    /\ Callable(t)
    /\ throws => MayThrow(beforeGuards, 1,
                          GetCurrentPath(GetRouterMode(currentAdapter), Location), to)
    /\ nav' = [nav EXCEPT ![t] = NavCall(op, to, query, currentAdapter, Location,
                                         beforeGuards, throws)]
    /\ currentAdapter' = GetRouterMode(currentAdapter)
    /\ UNCHANGED <<envVars, listener, href, beforeGuards, afterHooks, call>>

PushCall(t, to, query, throws) == Navigate(t, "push", to, query, throws)

ReplaceCall(t, to, query, throws) == Navigate(t, "replace", to, query, throws)

\* the promise of the awaited guard settles with o, and runGuards goes on to
\* its next suspension or its return
GuardSettles(t, o, throws) ==
    LET r == nav[t]
        c == r.calls[Len(r.calls)]
    IN  /\ r.pc = "guard"
        /\ o \in Yields(c.g, c.from, c.to) \ {Throw}
        /\ throws => /\ ~GuardVerdict(o).return
                     /\ MayThrow(beforeGuards, r.gi + 1, r.from, r.to)
        /\ nav' = [nav EXCEPT ![t] = GuardSettled(r, o, beforeGuards, throws)]
        /\ UNCHANGED <<envVars, currentAdapter, listener, href, beforeGuards, afterHooks,
                       call>>

\* push / replace resumes after `await runGuards(from, to)`
Resume(t, throws, throwers) ==
    LET r == nav[t]
        st == [entries |-> entries, idx |-> idx, href |-> href, adapter |-> currentAdapter]
        d == Decision(r.guardResult)
        out == NavResume(r, st, beforeGuards, afterHooks, throws, throwers)
    IN  /\ r.pc = "resume"
        /\ throws => /\ d = "redirect"
                     /\ MayThrow(beforeGuards, 1, GetCurrentPath(GetRouterMode(currentAdapter),
                                                                 Location), r.guardResult.s)
        /\ throwers # {} => d = "commit"
        /\ nav' = [nav EXCEPT ![t] = out.r]
        /\ entries' = out.entries
        /\ idx' = out.idx
        /\ pendingEvents' = pendingEvents \cup out.events
        /\ href' = out.href
        /\ currentAdapter' = out.adapter
        /\ UNCHANGED <<listener, beforeGuards, afterHooks, call>>

\* the events a traversal from entry i to entry j fires
TraversalEvents(es, i, j) ==
    IF es[i].hash # es[j].hash THEN {"popstate", "hashchange"} ELSE {"popstate"}

\* The environment traverses the session history by delta, as asked by
\* window.history.back() / forward() or by the user: the current entry
\* changes and the change events are dispatched to the listener.
Traverse(delta) ==
    LET j == idx + delta
    IN  /\ j \in 1..Len(entries)
        /\ idx' = j
        /\ href' = OnEvents(TraversalEvents(entries, idx, j), listener, href, entries[j])
        /\ UNCHANGED <<entries, pendingEvents, currentAdapter, listener,
                       beforeGuards, afterHooks, nav, call>>

\* back(): window.history.back()
Back == Traverse(-1)

\* forward(): window.history.forward()
Forward == Traverse(1)

\* the environment dispatches the change events a fragment navigation queued
DispatchEvents ==
    /\ pendingEvents # {}
    /\ pendingEvents' = {}
    /\ href' = OnEvents(pendingEvents, listener, href, Location)
    /\ UNCHANGED <<entries, idx, currentAdapter, listener, beforeGuards, afterHooks, nav,
                   call>>

Next ==
    \/ \E t \in Navs, to \in Targets, q \in Queries, throws \in BOOLEAN :
            PushCall(t, to, q, throws)
    \/ \E t \in Navs, to \in Targets, q \in Queries, throws \in BOOLEAN :
            ReplaceCall(t, to, q, throws)
    \/ \E t \in Navs, o \in AnyOutcome, throws \in BOOLEAN : GuardSettles(t, o, throws)
    \/ \E t \in Navs, throws \in BOOLEAN, throwers \in SUBSET (1..Len(afterHooks)) :
            Resume(t, throws, throwers)
    \/ Back
    \/ Forward
    \/ DispatchEvents

Spec == Init /\ [][Next]_vars

\* Two overlapping navigations: one guard is registered, and the second call
\* of push / replace is made while the first one is suspended awaiting it.
InitOverlap ==
    \E config \in Configs :
        /\ entries = <<InitialLocation(CreateRouterMode(config))>>
        /\ idx = 1
        /\ pendingEvents = {}
        /\ currentAdapter = CreateRouterMode(config)
        /\ listener = SetupListener(CreateRouterMode(config))
        /\ href = LocationHref(InitialLocation(CreateRouterMode(config)))
        /\ beforeGuards = SubSeq(GuardNames, 1, 1)
        /\ afterHooks = << >>
        /\ nav = [t \in {1, 2} |-> Idle]
        /\ call = NoCall

\* the first call is suspended awaiting a guard
FirstSuspended == nav[1].pc = "guard"

NextOverlap ==
    \/ \E to \in Targets, q \in Queries : PushCall(1, to, q, FALSE)
    \/ \E to \in Targets, q \in Queries : ReplaceCall(1, to, q, FALSE)
    \/ FirstSuspended /\ \E to \in Targets, q \in Queries : PushCall(2, to, q, FALSE)
    \/ FirstSuspended /\ \E to \in Targets, q \in Queries : ReplaceCall(2, to, q, FALSE)
    \/ \E t \in Navs, o \in AnyOutcome : GuardSettles(t, o, FALSE)
    \/ \E t \in Navs : Resume(t, FALSE, {})
    \/ Back
    \/ Forward
    \/ DispatchEvents

SpecOverlap == InitOverlap /\ [][NextOverlap]_vars

\* Overlapping navigations that nothing but the application drives: one
\* guard and one hook are registered, the calls of push / replace and the
\* completions of their guards interleave in every way, and the user does
\* not traverse the session history.
InitInterleaved ==
    \E config \in Configs :
        /\ entries = <<InitialLocation(CreateRouterMode(config))>>
        /\ idx = 1
        /\ pendingEvents = {}
        /\ currentAdapter = CreateRouterMode(config)
        /\ listener = SetupListener(CreateRouterMode(config))
        /\ href = LocationHref(InitialLocation(CreateRouterMode(config)))
        /\ beforeGuards = SubSeq(GuardNames, 1, 1)
        /\ afterHooks = SubSeq(HookNames, 1, 1)
        /\ nav = [t \in {1, 2} |-> Idle]
        /\ call = NoCall

NextInterleaved ==
    \/ \E to \in Targets, q \in Queries : PushCall(1, to, q, FALSE)
    \/ \E to \in Targets, q \in Queries : ReplaceCall(1, to, q, FALSE)
    \/ FirstSuspended /\ \E to \in Targets, q \in Queries : PushCall(2, to, q, FALSE)
    \/ FirstSuspended /\ \E to \in Targets, q \in Queries : ReplaceCall(2, to, q, FALSE)
    \/ \E t \in Navs, o \in AnyOutcome : GuardSettles(t, o, FALSE)
    \/ \E t \in Navs : Resume(t, FALSE, {})
    \/ DispatchEvents

SpecInterleaved == InitInterleaved /\ [][NextInterleaved]_vars

\* createRouterMode(config), router-mode.ts lines 217-227: the singleton is
\* replaced; the URL state and its subscription are not touched.  The call
\* is recorded with whether it changed the kind of the active adapter.
createRouterMode(config) ==
    /\ currentAdapter' = CreateRouterMode(config)
    /\ call' = [op |-> "createRouterMode", config |-> config,
                changed |-> GetRouterMode(currentAdapter).mode # config.mode]
    /\ UNCHANGED <<envVars, listener, href, beforeGuards, afterHooks, nav>>

\* routerState.reinitializeListener(), router-state.svelte.ts lines 76-80:
\* the callback is unsubscribed and subscribed again through the adapter of
\* the moment, and the URL state reads the location
reinitializeListener ==
    /\ listener' = SetupListener(currentAdapter)
    /\ href' = LocationHref(Location)
    /\ currentAdapter' = GetRouterMode(currentAdapter)
    /\ call' = [op |-> "reinitializeListener"]
    /\ UNCHANGED <<envVars, beforeGuards, afterHooks, nav>>

\* The mode is configured while the application runs: no guard and no hook
\* is registered, the application configures a mode and re-subscribes the
\* URL state in any order, navigates once, and the user traverses the
\* session history.
InitMode == InitWith(<< >>, << >>)

NextMode ==
    \/ \E config \in Configs : createRouterMode(config)
    \/ reinitializeListener
    \/ \E to \in Targets : PushCall(1, to, NoQuery, FALSE)
    \/ Resume(1, FALSE, {})
    \/ Back
    \/ Forward
    \/ DispatchEvents

SpecMode == InitMode /\ [][NextMode]_vars

\* The end-to-end scenario: one guard is registered, either the guard that
\* redirects every navigation to "/login" or the guard that redirects every
\* navigation but the one to "/login"; one hook observes.
InitRedirect ==
    \E g \in {"toLogin", "auth"} : InitWith(<<g>>, SubSeq(HookNames, 1, 1))

\* A guard that completes settles the promise the loop awaits, and a settled
\* promise resumes the function that awaits it: the continuations of a call
\* are never postponed for ever.
NavFairness ==
    /\ WF_vars(\E t \in {1}, o \in AnyOutcome : GuardSettles(t, o, FALSE))
    /\ WF_vars(\E t \in {1}, throwers \in SUBSET {1} : Resume(t, FALSE, throwers))

SpecRedirect == InitRedirect /\ [][Next]_vars /\ NavFairness

(***************************************************************************)
(* guards.ts: registration, removal and clearing.                          *)
(***************************************************************************)
\* longest before-guard registry the registrations build
MaxRegistered == 3
\* longest after-hook registry the registrations build
MaxRegisteredHooks == 2

\* the guards and the hooks the application registers, possibly repeatedly
RegisteredGuards == {GuardNames[1], GuardNames[2]}
RegisteredHooks == {HookNames[1], HookNames[2]}

\* Array.prototype.indexOf, 1-based: the first index of x in a, 0 when none
ArrayIndexOf(a, x) ==
    IF \E i \in 1..Len(a) : a[i] = x
    THEN CHOOSE i \in 1..Len(a) : a[i] = x /\ \A j \in 1..(i - 1) : a[j] # x
    ELSE 0

\* a.splice(index, 1), index 1-based
Splice(a, index) == SubSeq(a, 1, index - 1) \o SubSeq(a, index + 1, Len(a))

\* the function beforeEach / afterEach returns, lines 34-39 / 60-65: the
\* registry after it has run
Removed(a, x) ==
    LET index == ArrayIndexOf(a, x)
    IN  IF index > 0 THEN Splice(a, index) ELSE a

\* mutant: clearGuards forgets the after-hooks
ClearedHooks_Kept(a) == a

\* a.length = 0, lines 132 and 133
ClearedGuards(a) == << >>
ClearedHooks(a) == << >>

\* beforeEach(guard)
beforeEach(g) ==
    /\ Len(beforeGuards) < MaxRegistered
    /\ beforeGuards' = Append(beforeGuards, g)
    /\ call' = [op |-> "beforeEach", fn |-> g]
    /\ UNCHANGED <<envVars, currentAdapter, listener, href, afterHooks, nav>>

\* afterEach(hook)
afterEach(h) ==
    /\ Len(afterHooks) < MaxRegisteredHooks
    /\ afterHooks' = Append(afterHooks, h)
    /\ call' = [op |-> "afterEach", fn |-> h]
    /\ UNCHANGED <<envVars, currentAdapter, listener, href, beforeGuards, nav>>

\* is k the place of a registration of x in a, or 0 for a registration that
\* is in a no more?
IsRegistration(a, x, k) == k = 0 \/ (k \in 1..Len(a) /\ a[k] = x)

\* The remove function that beforeEach(g) returned is called.  The function
\* holds g only: reg, the place the registration it was returned for has in
\* the registry (0 when that registration is gone), is not known to it.
RemoveGuard(g, reg) ==
    /\ IsRegistration(beforeGuards, g, reg)
    /\ beforeGuards' = Removed(beforeGuards, g)
    /\ call' = [op |-> "removeGuard", fn |-> g, reg |-> reg]
    /\ UNCHANGED <<envVars, currentAdapter, listener, href, afterHooks, nav>>

\* the remove function that afterEach(h) returned is called
RemoveHook(h, reg) ==
    /\ IsRegistration(afterHooks, h, reg)
    /\ afterHooks' = Removed(afterHooks, h)
    /\ call' = [op |-> "removeHook", fn |-> h, reg |-> reg]
    /\ UNCHANGED <<envVars, currentAdapter, listener, href, beforeGuards, nav>>

\* clearGuards(); the call is recorded with the sizes of the registries it
\* was made on
clearGuards ==
    /\ beforeGuards' = ClearedGuards(beforeGuards)
    /\ afterHooks' = ClearedHooks(afterHooks)
    /\ call' = [op |-> "clearGuards", guards |-> Len(beforeGuards),
                hooks |-> Len(afterHooks)]
    /\ UNCHANGED <<envVars, currentAdapter, listener, href, nav>>

\* The application after start-up in the default mode, its registries empty.
InitRegistry ==
    /\ InitWith(<< >>, << >>)
    /\ currentAdapter = GetRouterMode(Null)
    /\ listener = SetupListener(Null)
    /\ Len(entries) = 1

\* no navigation has been started
SettingUp == \A t \in Navs : Callable(t)

\* Guards and hooks are registered, removed and cleared in any order; then
\* one navigation is made, whose guards allow or cancel and whose hooks may
\* fail.
NextRegistry ==
    \/ SettingUp /\ \E g \in RegisteredGuards : beforeEach(g)
    \/ SettingUp /\ \E h \in RegisteredHooks : afterEach(h)
    \/ SettingUp /\ \E g \in RegisteredGuards, reg \in 0..Len(beforeGuards) :
                        RemoveGuard(g, reg)
    \/ SettingUp /\ \E h \in RegisteredHooks, reg \in 0..Len(afterHooks) :
                        RemoveHook(h, reg)
    \/ SettingUp /\ clearGuards
    \/ \E t \in Navs : PushCall(t, Admin, NoQuery, FALSE)
    \/ \E t \in Navs, o \in {True, False} : GuardSettles(t, o, FALSE)
    \/ \E t \in Navs, throwers \in SUBSET (1..Len(afterHooks)) : Resume(t, FALSE, throwers)

SpecRegistry == InitRegistry /\ [][NextRegistry]_vars

\* The registries change during a run of the guards: two guards are
\* registered, one push is made, and while runGuards is suspended awaiting a
\* guard the application (the guard itself, before its promise settles, or
\* any other task) registers, removes and clears.
InitMidRun ==
    /\ InitWith(SubSeq(GuardNames, 1, 2), << >>)
    /\ currentAdapter = GetRouterMode(Null)
    /\ listener = SetupListener(Null)
    /\ Len(entries) = 1

NextMidRun ==
    \/ PushCall(1, Admin, NoQuery, FALSE)
    \/ FirstSuspended /\ \E g \in RegisteredGuards : beforeEach(g)
    \/ FirstSuspended /\ \E g \in RegisteredGuards, reg \in 1..Len(beforeGuards) :
                             RemoveGuard(g, reg)
    \/ FirstSuspended /\ clearGuards
    \/ \E o \in {True, False} : GuardSettles(1, o, FALSE)
    \/ Resume(1, FALSE, {})

SpecMidRun == InitMidRun /\ [][NextMidRun]_vars

\* The remove functions told apart.  Registration number n is the n-th call
\* of beforeEach; the record of the latest call keeps, next to the call, what
\* the program holds outside the registry: fns, the guard that the remove
\* function of each registration closes over, and called, the remove
\* functions called so far; ids names, for each element of the registry, the
\* registration that appended it.
InitRemove ==
    /\ entries = <<InitialLocation(GetRouterMode(Null))>>
    /\ idx = 1
    /\ pendingEvents = {}
    /\ currentAdapter = GetRouterMode(Null)
    /\ listener = SetupListener(Null)
    /\ href = LocationHref(InitialLocation(GetRouterMode(Null)))
    /\ beforeGuards = << >>
    /\ afterHooks = << >>
    /\ nav = [t \in {1} |-> Idle]
    /\ call = [op |-> "none", closure |-> 0, again |-> FALSE, fns |-> << >>,
               called |-> {}, ids |-> << >>]

\* const remove = beforeEach(g): lines 32-40
BeforeEachReturningRemove(g) ==
    /\ Len(call.fns) < MaxRegistered
    /\ beforeGuards' = Append(beforeGuards, g)
    /\ call' = [op |-> "beforeEach", closure |-> Len(call.fns) + 1, again |-> FALSE,
                fns |-> Append(call.fns, g), called |-> call.called,
                ids |-> Append(call.ids, Len(call.fns) + 1)]
    /\ UNCHANGED <<envVars, currentAdapter, listener, href, afterHooks, nav>>

\* remove(), the function registration number n returned: lines 34-39
CallRemove(n) ==
    LET guard == call.fns[n]
        index == ArrayIndexOf(beforeGuards, guard)
    IN  /\ beforeGuards' = Removed(beforeGuards, guard)
        /\ call' = [op |-> "remove", closure |-> n, again |-> n \in call.called,
                    fns |-> call.fns, called |-> call.called \cup {n},
                    ids |-> IF index > 0 THEN Splice(call.ids, index) ELSE call.ids]
        /\ UNCHANGED <<envVars, currentAdapter, listener, href, afterHooks, nav>>

NextRemove ==
    \/ SettingUp /\ \E g \in RegisteredGuards : BeforeEachReturningRemove(g)
    \/ SettingUp /\ \E n \in 1..Len(call.fns) : CallRemove(n)
    \/ PushCall(1, Admin, NoQuery, FALSE)
    \/ \E o \in {True, False} : GuardSettles(1, o, FALSE)
    \/ Resume(1, FALSE, {})

SpecRemove == InitRemove /\ [][NextRemove]_vars

(***************************************************************************)
(* The guard pipeline: claims C1 - C4.                                     *)
(***************************************************************************)
\* the guards invoked by the run are the first guards of the registry, in
\* registration order, and the loop awaits each before it invokes the next
InOrderOneAtATime(r) ==
    /\ Len(r.calls) <= Len(beforeGuards)
    /\ \A i \in 1..Len(r.calls) : r.calls[i].g = beforeGuards[i]
    /\ r.settled \in {Len(r.calls) - 1, Len(r.calls)}
    /\ r.pc = "guard" <=> r.settled = Len(r.calls) - 1

\* C1: runGuards invokes the guards one at a time in registration order; at
\* the first guard that yields false it returns false, and no guard
\* registered after that one is invoked in the run.
C1_CancelStopsTheRun ==
    \A t \in Navs :
        LET r == nav[t]
        IN  /\ InOrderOneAtATime(r)
            /\ r.last = False =>
                   /\ r.pc \in {"resume", "done"}
                   /\ r.guardResult = False
                   /\ r.settled = Len(r.calls)

\* g1 allowed, g2 cancelled, g3 was never invoked
C1_Witness ==
    \E t \in Navs :
        /\ nav[t].last = False
        /\ nav[t].guardResult = False
        /\ Len(nav[t].calls) = 2
        /\ Len(beforeGuards) = 3

\* C2: runGuards returns exactly the string yielded by the first guard that
\* yields a string, whatever from and to are, and no guard registered after
\* that one is invoked in the run.
C2_RedirectStopsTheRun ==
    \A t \in Navs :
        LET r == nav[t]
        IN  r.last.k = "string" =>
               /\ r.pc \in {"resume", "done"}
               /\ r.guardResult = r.last
               /\ r.settled = Len(r.calls)
               /\ \A i \in 1..Len(r.calls) : r.calls[i].g = beforeGuards[i]

\* the first of three guards yields "/admin" in a navigation to "/login"
C2_Witness ==
    \E t \in Navs :
        /\ nav[t].pc = "resume"
        /\ nav[t].guardResult = Str(Admin)
        /\ nav[t].to = Login
        /\ Len(nav[t].calls) = 1
        /\ Len(beforeGuards) = 3

\* a run in which every guard invoked so far has allowed the navigation
Allowing(r) == r.settled = 0 \/ r.last \in {True, Void}

\* C3: when every guard yields true or nothing, runGuards invokes every
\* guard exactly once, in registration order, each with the (from, to) it was
\* given, never starts a guard before the one before it has settled, and
\* returns true after the last guard.
C3_AllAllowReturnsTrue ==
    \A t \in Navs :
        LET r == nav[t]
        IN  /\ \A i \in 1..Len(r.calls) :
                   r.calls[i] = [g |-> beforeGuards[i], from |-> r.from, to |-> r.to]
            /\ Len(r.calls) <= Len(beforeGuards)
            /\ r.pc = "guard" => r.settled = Len(r.calls) - 1 /\ r.gi = Len(r.calls)
            /\ r.pc \in {"resume", "done"} => r.settled = Len(r.calls)
            /\ r.guardResult = True =>
                   Len(r.calls) = Len(beforeGuards) /\ Allowing(r)
            /\ (r.pc = "resume" /\ Allowing(r)) => r.guardResult = True

\* three guards were invoked, the last yielded nothing, the run returned true
C3_Witness ==
    \E t \in Navs :
        /\ nav[t].pc = "resume"
        /\ nav[t].guardResult = True
        /\ Len(nav[t].calls) = 3
        /\ nav[t].last = Void

\* C4: a guard that raises an error (at once, or by a rejected promise)
\* makes runGuards return false as a guard that returns false does, the
\* guards registered after it are not invoked, and push / replace resolve to
\* false: they never reject.
C4_GuardErrorCancels ==
    \A t \in Navs :
        LET r == nav[t]
        IN  /\ r.result # "rejected"
            /\ r.guardResult.k # "throw"
            /\ r.last \in {Throw, Reject} =>
                   /\ r.pc \in {"resume", "done"}
                   /\ r.guardResult = False
                   /\ r.settled = Len(r.calls)
                   /\ r.pc = "done" => r.result = "false"

\* the first of several guards raised an error and the call resolved to false
C4_Witness ==
    \E t \in Navs :
        /\ nav[t].pc = "done"
        /\ nav[t].result = "false"
        /\ nav[t].last = Reject
        /\ Len(nav[t].calls) < Len(beforeGuards)

\* the same, for an error raised before the guard returned
C4_WitnessThrow ==
    \E t \in Navs :
        /\ nav[t].pc = "done"
        /\ nav[t].result = "false"
        /\ nav[t].last = Throw
        /\ Len(nav[t].calls) < Len(beforeGuards)

(***************************************************************************)
(* The navigation orchestrator: claims C5 - C10.                           *)
(***************************************************************************)
\* the step is one of the call number t
StepOf(t) == nav'[t] # nav[t]

\* the step ends the call number t with the result res
Ends(t, res) == nav[t].pc # "done" /\ nav'[t].pc = "done" /\ nav'[t].result = res

\* the path and the search the active adapter reads from the location u
PathRead(u) == GetCurrentPath(GetRouterMode(currentAdapter), u)
SearchRead(u) == GetCurrentSearch(GetRouterMode(currentAdapter), u)

\* C5: when the guard pipeline cancels a push or a replace, the call
\* returns false and leaves the environment URL, the history entries and the
\* URL state href as they were, and no after-hook is invoked.
C5_CancelTouchesNothing ==
    [][\A t \in Navs :
          /\ (nav[t].pc = "resume" /\ nav[t].guardResult = False /\ StepOf(t)) =>
                 Ends(t, "false")
          /\ (StepOf(t) /\ nav'[t].result # "true") =>
                 /\ UNCHANGED <<entries, idx, pendingEvents, href>>
                 /\ nav'[t].hooks = << >>]_vars

\* a push with a query was cancelled by the second guard
C5_Witness ==
    \E t \in Navs :
        /\ nav[t].pc = "done"
        /\ nav[t].result = "false"
        /\ nav[t].last = False
        /\ nav[t].op = "push"
        /\ nav[t].query = OneQuery
        /\ Len(nav[t].calls) = 2
        /\ Len(afterHooks) > 0

\* C6: in a push / replace that the guards allow, every guard has completed
\* before the environment URL changes, the URL state href is the
\* environment's new full URL before any after-hook is invoked, every
\* after-hook is invoked with (from, to), from being the path captured when
\* the call started, and the call returns true.
C6_AllowedNavigationOrder ==
    [][\A t \in Navs :
          /\ (nav[t].pc = "resume" /\ nav[t].guardResult = True /\ StepOf(t)) =>
                 Ends(t, "true")
          /\ (StepOf(t) /\ (entries' # entries \/ idx' # idx \/ href' # href)) =>
                 /\ nav[t].pc = "resume"
                 /\ nav[t].settled = Len(nav[t].calls)
                 /\ Len(nav[t].calls) = Len(beforeGuards)
                 /\ Ends(t, "true")
          /\ Ends(t, "true") =>
                 /\ href' = LocationHref(entries'[idx'])
                 /\ Len(nav'[t].hooks) = Len(afterHooks)
                 /\ \A i \in 1..Len(afterHooks) :
                        nav'[t].hooks[i] =
                            [h |-> afterHooks[i], from |-> nav[t].from, to |-> nav[t].to,
                             href |-> LocationHref(entries'[idx']),
                             url |-> LocationHref(entries'[idx'])]
                 /\ \A i \in 1..Len(nav[t].calls) :
                        nav[t].calls[i].from = nav[t].from]_vars

\* a navigation passed two guards or more, changed the URL and ran a hook
C6_Witness ==
    \E t \in Navs :
        /\ nav[t].pc = "done"
        /\ nav[t].result = "true"
        /\ Len(nav[t].calls) >= 2
        /\ Len(nav[t].hooks) >= 1
        /\ nav[t].hooks[1].href # LocationHref(InitialLocation(nav[t].adapter))
        /\ nav[t].from # nav[t].to

\* push("/admin") has been called
PushedAdmin == nav[1].op = "push" /\ nav[1].origTo = Admin

\* the call has committed "/login": the adapter reads "/login" from the
\* location and every after-hook was given (from, "/login")
CommittedLogin ==
    /\ nav[1].pc = "done"
    /\ nav[1].result = "true"
    /\ nav[1].to = Login
    /\ Len(nav[1].hooks) = Len(afterHooks)
    /\ \A i \in 1..Len(nav[1].hooks) :
           nav[1].hooks[i].from = nav[1].from /\ nav[1].hooks[i].to = Login

\* C7: with a guard registered that redirects any navigation to "/login",
\* push("/admin") ends with the adapter encoding "/login" and the after-hooks
\* observing (from, "/login"), not (from, "/admin").
C7_RedirectEveryNavigation ==
    (beforeGuards = <<"toLogin">> /\ PushedAdmin) ~> CommittedLogin

C9_HistoryEntries ==
    [][\A t \in Navs :
          StepOf(t) =>
             IF Ends(t, "true") /\ nav[t].op = "push"
             THEN /\ idx' = idx + 1
                  /\ Len(entries') = idx + 1
                  /\ SubSeq(entries', 1, idx) = SubSeq(entries, 1, idx)
             ELSE IF Ends(t, "true") /\ nav[t].op = "replace"
             THEN /\ idx' = idx
                  /\ Len(entries') = Len(entries)
                  /\ \A i \in 1..Len(entries) : i # idx => entries'[i] = entries[i]
                  /\ PathRead(entries'[idx']) = nav[t].to
             ELSE UNCHANGED <<entries, idx>>]_vars

\* C10: back(), forward() and the change events of the environment invoke
\* no guard and no hook and cannot be cancelled: whatever guards are
\* registered, the traversal takes place and the event sets the URL state
\* href to the environment's current URL.
C10_TraversalIsNotGuarded ==
    [][(\/ idx' # idx /\ \A t \in Navs : ~Ends(t, "true")
        \/ pendingEvents # {} /\ pendingEvents' = {})
          => /\ nav' = nav
             /\ entries' = entries
             /\ href' = LocationHref(entries'[idx'])]_vars

\* a guard cancelled a navigation, and a traversal made since then moved the
\* location and the URL state
C10_Witness ==
    \E t \in Navs :
        /\ nav[t].pc = "done"
        /\ nav[t].result = "false"
        /\ nav[t].from # PathRead(Location)
        /\ href = LocationHref(Location)

\* a traversal was made while a guard was awaited
C10_WitnessPending ==
    \E t \in Navs :
        /\ nav[t].pc = "guard"
        /\ nav[t].from # PathRead(Location)
        /\ href = LocationHref(Location)

RemovesGuard == call'.op = "removeGuard" /\ call'.reg > 0
RemovesHook == call'.op = "removeHook" /\ call'.reg > 0

\* C12: calling the remove function that the registration of a guard (or of
\* a hook) returned removes exactly that registration: it is invoked by no
\* later run, every other registration remains, and their order is
\* unchanged, whatever other registrations were made in between.
C12_RemovesThatRegistration ==
    [][/\ (RemovesGuard /\ beforeGuards' # beforeGuards) =>
              /\ beforeGuards' = Splice(beforeGuards, call'.reg)
              /\ afterHooks' = afterHooks
       /\ (RemovesHook /\ afterHooks' # afterHooks) =>
              /\ afterHooks' = Splice(afterHooks, call'.reg)
              /\ beforeGuards' = beforeGuards]_vars

\* the step is a call of clearGuards
Clears == call'.op = "clearGuards" /\ call' # call

\* C13: clearGuards() leaves both registries empty whatever they contained,
\* and is idempotent: a second clearGuards() changes nothing; after it
\* runGuards returns the allow outcome and runAfterHooks invokes nothing.
C13_ClearEmptiesBoth ==
    [][/\ Clears => beforeGuards' = << >> /\ afterHooks' = << >>
       /\ (Clears /\ call.op = "clearGuards") =>
              beforeGuards' = beforeGuards /\ afterHooks' = afterHooks
       /\ \A t \in Navs :
             (call.op = "clearGuards" /\ StepOf(t)) =>
                 /\ nav'[t].calls = << >>
                 /\ nav'[t].hooks = << >>
                 /\ nav'[t].pc = "resume" => nav'[t].guardResult = True
                 /\ nav'[t].pc = "done" => nav'[t].result = "true"
                 /\ nav'[t].pc \in {"resume", "done"}]_vars

\* registries of guards and hooks were cleared, cleared again, and the
\* navigation made then was allowed and ran no hook
C13_Witness ==
    /\ call = [op |-> "clearGuards", guards |-> 0, hooks |-> 0]
    /\ nav[1].pc = "done"
    /\ nav[1].result = "true"
    /\ nav[1].hooks = << >>

\* clearGuards was called on registries that held guards and hooks
C13_WitnessFull ==
    /\ call.op = "clearGuards"
    /\ call.guards = MaxRegistered
    /\ call.hooks > 0
    /\ beforeGuards = << >>
    /\ afterHooks = << >>

(***************************************************************************)
(* matcher.ts: path normalisation.                                         *)
(***************************************************************************)
\* longest string normalizePath is applied to
MaxPathLen == 4

\* the characters of those strings: the separator and two others
PathChars == {"/", "a", "b"}

\* every string over PathChars of length n
RECURSIVE StringsOfLen(_)
StringsOfLen(n) ==
    IF n = 0 THEN {Empty}
    ELSE {<<c>> \o s : c \in PathChars, s \in StringsOfLen(n - 1)}

PathStrings == UNION {StringsOfLen(n) : n \in 0..MaxPathLen}

StartsWith(s, t) == OccursAt(s, t, 1)
EndsWith(s, t) == Len(t) <= Len(s) /\ OccursAt(s, t, Len(s) - Len(t) + 1)

\* a normalizePath whose runs of separators are left as they are
ReplaceSlashRuns_Kept(s) == s

\* path.replace(/\/+/g, '/'): every run of separators becomes one separator
RECURSIVE ReplaceSlashRuns(_)
ReplaceSlashRuns(s) ==
    IF Len(s) < 2 THEN s
    ELSE IF s[1] = "/" /\ s[2] = "/" THEN ReplaceSlashRuns(Tail(s))
    ELSE <<s[1]>> \o ReplaceSlashRuns(Tail(s))

\* a normalizePath that keeps the trailing separator
RemoveTrailingSlash_Kept(s) == s

\* normalized.slice(0, -1) when the string is longer than one character and
\* ends with the separator
RemoveTrailingSlash(s) ==
    IF Len(s) > 1 /\ EndsWith(s, <<"/">>) THEN SubSeq(s, 1, Len(s) - 1) ELSE s

\* normalized = '/' + normalized unless it starts with the separator
EnsureLeadingSlash(s) == IF StartsWith(s, <<"/">>) THEN s ELSE <<"/">> \o s

normalizePath(path) ==
    IF path = Empty \/ path = Root THEN Root
    ELSE RemoveTrailingSlash(EnsureLeadingSlash(ReplaceSlashRuns(path)))

(***************************************************************************)
(* matcher.ts: templates compiled by path-to-regexp.                       *)
(*                                                                         *)
(* A well-formed template is a normalised path whose segments are literal  *)
(* text or a parameter ":name", the names of one template distinct.  The   *)
(* compiled expression matches "/" followed by the segments joined by "/", *)
(* a parameter matching one non-empty segment ([^/]+), then an optional    *)
(* trailing "/", anchored at both ends.  The expression ignores case; the  *)
(* letters of the model are all of one case.                               *)
(***************************************************************************)
IsParam(seg) == Len(seg) > 1 /\ seg[1] = ":"

\* the segments of a template; the template "/" has none
TemplateSegments(path) == IF path = Root THEN << >> ELSE Tail(SplitSlash(path))

\* pathToRegexp(path): the compiled expression, here the segments it is made
\* of, and the names of its parameters in the order they occur
pathToRegexp(path) ==
    LET segs == TemplateSegments(path)
        at == Ascending({i \in 1..Len(segs) : IsParam(segs[i])})
    IN  [regexp |-> segs, keys |-> [k \in 1..Len(at) |-> Tail(segs[at[k]])]]

\* regexpCache and keysCache: the entries [path, value] of the two maps, kept
\* with the latest call of the matcher
regexpCache == IF "regexpCache" \in DOMAIN call THEN call.regexpCache ELSE {}
keysCache == IF "keysCache" \in DOMAIN call THEN call.keysCache ELSE {}

\* map.has(path) and map.get(path)
MapHas(map, path) == \E e \in map : e.path = path
MapGet(map, path) == (CHOOSE e \in map : e.path = path).value

\* map.set(path, value)
MapSet(map, path, value) ==
    {e \in map : e.path # path} \cup {[path |-> path, value |-> value]}

\* getRegexp(path): the cached expression, the compiled one when there is none
getRegexp(path) ==
    IF MapHas(regexpCache, path) THEN MapGet(regexpCache, path)
    ELSE pathToRegexp(path).regexp

\* getKeys(path): the cached names; when there are none, getRegexp(path) is
\* called, which caches the names only if it has to compile the expression
getKeys(path) ==
    IF MapHas(keysCache, path) THEN MapGet(keysCache, path)
    ELSE IF MapHas(regexpCache, path) THEN << >>
    ELSE pathToRegexp(path).keys

\* the two maps after getRegexp(path)
AfterGetRegexp(caches, path) ==
    IF MapHas(caches.regexp, path) THEN caches
    ELSE [regexp |-> MapSet(caches.regexp, path, pathToRegexp(path).regexp),
          keys |-> MapSet(caches.keys, path, pathToRegexp(path).keys)]

\* the two maps after getRegexp was called on every path of a set
AfterGetRegexps(caches, paths) ==
    CHOOSE after \in
        { [regexp |-> UNION ({c.regexp}
                          \cup {AfterGetRegexp(c, path).regexp : path \in ps}),
           keys |-> {e \in c.keys :
                        \A path \in ps : e \in AfterGetRegexp(c, path).keys}
                        \cup UNION {AfterGetRegexp(c, path).keys \ c.keys :
                                       path \in ps}] :
          c \in {caches}, ps \in {paths} } : TRUE

NoMatch == [matched |-> FALSE, groups |-> << >>]

\* the string c against the segments, without the optional trailing "/"
ExecBody(segs, c) ==
    IF segs = << >> THEN [matched |-> c = Root, groups |-> << >>]
    ELSE LET ps == SplitSlash(c)
             at == Ascending({i \in 1..Len(segs) : IsParam(segs[i])})
         IN  IF /\ Len(ps) = Len(segs) + 1
                /\ ps[1] = Empty
                /\ \A i \in 1..Len(segs) :
                      IF IsParam(segs[i]) THEN ps[i + 1] # Empty
                      ELSE ps[i + 1] = segs[i]
             THEN [matched |-> TRUE,
                   groups |-> [k \in 1..Len(at) |-> ps[at[k] + 1]]]
             ELSE NoMatch

\* regexp.exec(s): whether s matches, and the captured groups match[1..]
RegexpExec(segs, s) ==
    LET whole == ExecBody(segs, s)
    IN  IF whole.matched THEN whole
        ELSE IF EndsWith(s, <<"/">>) THEN ExecBody(segs, SubSeq(s, 1, Len(s) - 1))
        ELSE NoMatch

\* regexp.test(s)
RegexpTest(segs, s) == RegexpExec(segs, s).matched

(***************************************************************************)
(* decodeURIComponent, on escapes of characters below U+0080.              *)
(***************************************************************************)
HexChars == <<"0", "1", "2", "3", "4", "5", "6", "7", "8", "9",
              "A", "B", "C", "D", "E", "F">>

IsHex(c) == \E i \in 1..Len(HexChars) : HexChars[i] = c
HexValue(c) == (CHOOSE i \in 1..Len(HexChars) : HexChars[i] = c) - 1

\* String.fromCharCode for the codes the escapes of the model denote
FromCharCode(n) ==
    CASE n = 65 -> "A"
      [] n = 68 -> "D"
      [] n = 17 -> "DC1"
      [] n = 20 -> "DC4"
      [] OTHER -> "?"

\* a "%" that is not followed by two hexadecimal digits
MalformedURI(s) ==
    \E i \in 1..Len(s) :
        /\ s[i] = "%"
        /\ ~(i + 2 <= Len(s) /\ IsHex(s[i + 1]) /\ IsHex(s[i + 2]))

RECURSIVE DecodeChars(_)
DecodeChars(s) ==
    IF s = Empty THEN Empty
    ELSE IF s[1] = "%"
         THEN <<FromCharCode(16 * HexValue(s[2]) + HexValue(s[3]))>>
                  \o DecodeChars(SubSeq(s, 4, Len(s)))
         ELSE <<s[1]>> \o DecodeChars(Tail(s))

\* decodeURIComponent(s): the decoded string, or a URIError thrown
decodeURIComponent(s) ==
    IF MalformedURI(s) THEN [threw |-> TRUE, value |-> Empty]
    ELSE [threw |-> FALSE, value |-> DecodeChars(s)]

(***************************************************************************)
(* matcher.ts: extractParams.                                              *)
(***************************************************************************)
\* an extractParams that reads the groups from the last to the first
MatchGroup_Reversed(groups, i) == groups[Len(groups) - i + 1]

\* match[i + 1], for the i-th key (counted from 1)
MatchGroup(groups, i) == groups[i]

\* params: the entries of the object in insertion order; or a throw
ParamsThrown == [threw |-> TRUE, params |-> << >>]
Params(entries_) == [threw |-> FALSE, params |-> entries_]

extractParams(pattern, pathname) ==
    LET keys == getKeys(pattern)
        match == RegexpExec(getRegexp(pattern), pathname)
        decoded == [i \in 1..Len(keys) |->
                        decodeURIComponent(MatchGroup(match.groups, i))]
    IN  IF ~match.matched THEN Params(<< >>)
        ELSE IF \E i \in 1..Len(keys) : decoded[i].threw THEN ParamsThrown
        ELSE Params([i \in 1..Len(keys) |->
                        [key |-> keys[i], value |-> decoded[i].value]])

(***************************************************************************)
(* matcher.ts: matchRoute and findMatchingRoutes.                          *)
(*                                                                         *)
(* A route is [id, path, children]; id names the node, so that "the same   *)
(* route object" can be told.                                              *)
(***************************************************************************)
\* a route's meta: not defined, or the entries of the mapping
NoMeta == [defined |-> FALSE, entries |-> << >>]
Meta(entries_) == [defined |-> TRUE, entries |-> entries_]

Node(id, path, children) ==
    [id |-> id, path |-> path, children |-> children, meta |-> NoMeta]

\* the same route, defined with a meta
WithMeta(route, entries_) == [route EXCEPT !.meta = Meta(entries_)]

\* a matcher that gives every result an empty meta
MetaOrEmpty_Lost(meta) == << >>

\* route.meta ?? {}
MetaOrEmpty(meta) == IF meta.defined THEN meta.entries ELSE << >>

\* what matchRoute returns: null, a MatchedRoute, or a throw
None ==
    [kind |-> "null", route |-> "", path |-> Empty, params |-> << >>,
     meta |-> << >>]
Thrown ==
    [kind |-> "URIError", route |-> "", path |-> Empty, params |-> << >>,
     meta |-> << >>]
Matched(route, path, params) ==
    [kind |-> "match", route |-> route.id, path |-> path, params |-> params,
     meta |-> MetaOrEmpty(route.meta)]

\* a full path that leaves the templates of the ancestors out
FullPath_Own(prefix, path) == normalizePath(<<"/">> \o path)

\* normalizePath(prefix === '/' ? `/${route.path}` : `${prefix}/${route.path}`)
FullPath(prefix, path) ==
    normalizePath(IF prefix = Root THEN <<"/">> \o path
                  ELSE prefix \o <<"/">> \o path)

\* the route itself as the result, its parameters extracted
SelfMatch(route, fullPath, normalizedPathname) ==
    LET ps == extractParams(fullPath, normalizedPathname)
    IN  IF ps.threw THEN Thrown ELSE Matched(route, fullPath, ps.params)

\* a matchRoute that returns the route that matches and never looks below it
MostSpecific_Self(childMatch, self) == self

\* a route that matches exactly gives way to a match among its children
MostSpecific(childMatch, self) == IF childMatch # None THEN childMatch ELSE self

\* a matchRoute that goes through the routes from the last to the first
RouteAt_Reversed(routes, i) == routes[Len(routes) - i + 1]

\* for (const route of routes): the i-th route of the loop
RouteAt(routes, i) == routes[i]

\* a matchRoute whose root route matches every pathname
RootMatches_Always(normalizedPathname) == TRUE

\* the root route itself matches only the pathname "/"
RootMatches(normalizedPathname) == normalizedPathname = Root

\* a matchRoute that looks below the routes that match exactly only
LayoutChildMatch_Skipped(childMatch) == None

\* the children of a route that does not match exactly are tried all the same
LayoutChildMatch(childMatch) == childMatch

RECURSIVE matchRoute(_, _, _)
RECURSIVE MatchRouteFrom(_, _, _, _)

\* the loop of matchRoute from the i-th route on
MatchRouteFrom(routes, i, normalizedPathname, prefix) ==
    IF i > Len(routes) THEN None
    ELSE LET route == RouteAt(routes, i)
             fullPath == FullPath(prefix, route.path)
             continue == MatchRouteFrom(routes, i + 1, normalizedPathname, prefix)
             childMatch(pre) ==
                 IF route.children # << >>
                 THEN matchRoute(route.children, normalizedPathname, pre)
                 ELSE None
         IN  IF route.path = Root /\ prefix = Empty
             THEN IF childMatch(Root) # None THEN childMatch(Root)
                  ELSE IF RootMatches(normalizedPathname)
                       THEN Matched(route, Root, << >>)
                       ELSE continue
             ELSE IF RegexpTest(getRegexp(fullPath), normalizedPathname)
                  THEN MostSpecific(childMatch(fullPath),
                                    SelfMatch(route, fullPath, normalizedPathname))
                  ELSE IF LayoutChildMatch(childMatch(fullPath)) # None
                       THEN LayoutChildMatch(childMatch(fullPath))
                       ELSE continue

matchRoute(routes, pathname, prefix) ==
    MatchRouteFrom(routes, 1, normalizePath(pathname), prefix)

\* what findMatchingRoutes returns: the matches from root to leaf, or a throw
MatchesThrown == [threw |-> TRUE, matches |-> << >>]
Matches(ms) == [threw |-> FALSE, matches |-> ms]

RECURSIVE findMatchingRoutes(_, _, _)
RECURSIVE FindMatchingRoutesFrom(_, _, _, _)

\* the loop of findMatchingRoutes from the i-th route on
FindMatchingRoutesFrom(routes, i, normalizedPathname, prefix) ==
    IF i > Len(routes) THEN Matches(<< >>)
    ELSE LET route == routes[i]
             fullPath == FullPath(prefix, route.path)
             continue ==
                 FindMatchingRoutesFrom(routes, i + 1, normalizedPathname, prefix)
             childMatches(pre) ==
                 IF route.children # << >>
                 THEN findMatchingRoutes(route.children, normalizedPathname, pre)
                 ELSE Matches(<< >>)
             self == SelfMatch(route, fullPath, normalizedPathname)
         IN  IF route.path = Root /\ prefix = Empty
             THEN IF childMatches(Root).threw THEN MatchesThrown
                  ELSE IF childMatches(Root).matches # << >>
                       THEN Matches(<<Matched(route, Root, << >>)>>
                                        \o childMatches(Root).matches)
                       ELSE IF normalizedPathname = Root
                            THEN Matches(<<Matched(route, Root, << >>)>>)
                            ELSE continue
             ELSE IF \/ RegexpTest(getRegexp(fullPath), normalizedPathname)
                     \/ StartsWith(normalizedPathname, fullPath)
                  THEN IF self = Thrown \/ childMatches(fullPath).threw
                       THEN MatchesThrown
                       ELSE Matches(<<self>> \o childMatches(fullPath).matches)
                  ELSE continue

findMatchingRoutes(routes, pathname, prefix) ==
    FindMatchingRoutesFrom(routes, 1, normalizePath(pathname), prefix)

\* the paths matchRoute calls getRegexp on, from the i-th route on: the full
\* path of every route the loop comes to, but of the root, and those of the
\* routes below it; the loop ends at the first route that returns or throws
RECURSIVE GetRegexpInMatchRoute(_, _, _, _)
GetRegexpInMatchRoute(routes, i, normalizedPathname, prefix) ==
    IF i > Len(routes) THEN {}
    ELSE UNION
        { LET isRoot == route.path = Root /\ pre = Empty
              below == GetRegexpInMatchRoute(route.children, 1, pathname,
                                             IF isRoot THEN Root ELSE fullPath)
              returns == MatchRouteFrom(<<route>>, 1, pathname, pre) # None
          IN  (IF isRoot THEN {} ELSE {fullPath}) \cup below \cup
              (IF returns THEN {}
               ELSE GetRegexpInMatchRoute(routes, i + 1, pathname, pre)) :
          route \in {RouteAt(routes, i)},
          fullPath \in {FullPath(prefix, RouteAt(routes, i).path)},
          pathname \in {normalizedPathname}, pre \in {prefix} }

\* the paths findMatchingRoutes calls getRegexp on, from the i-th route on:
\* the routes below a route are gone through when the route is included and
\* its parameters were extracted
RECURSIVE GetRegexpInFindMatchingRoutes(_, _, _, _)
GetRegexpInFindMatchingRoutes(routes, i, normalizedPathname, prefix) ==
    IF i > Len(routes) THEN {}
    ELSE UNION
        { LET isRoot == route.path = Root /\ pre = Empty
              included == \/ isRoot
                          \/ RegexpTest(getRegexp(fullPath), pathname)
                          \/ StartsWith(pathname, fullPath)
              threw == ~isRoot /\ SelfMatch(route, fullPath, pathname) = Thrown
              below == IF included /\ ~threw
                       THEN GetRegexpInFindMatchingRoutes(
                                route.children, 1, pathname,
                                IF isRoot THEN Root ELSE fullPath)
                       ELSE {}
          IN  (IF isRoot THEN {} ELSE {fullPath}) \cup below \cup
              (IF only.threw \/ only.matches # << >> THEN {}
               ELSE GetRegexpInFindMatchingRoutes(routes, i + 1, pathname, pre)) :
          route \in {routes[i]},
          fullPath \in {FullPath(prefix, routes[i].path)},
          pathname \in {normalizedPathname}, pre \in {prefix},
          only \in {FindMatchingRoutesFrom(<<routes[i]>>, 1, normalizedPathname,
                                            prefix)} }

(***************************************************************************)
(* The route forests, templates and pathnames the matcher is applied to.   *)
(***************************************************************************)
\* most routes at the top level of a forest
MaxSiblings == 2
\* most segments of a pathname
MaxSegments == 2

Leaf(id, path) == Node(id, path, << >>)

\* the metas of the routes
LayoutMeta == <<[key |-> <<"l">>, value |-> <<"1">>]>>
TitleMeta == <<[key |-> <<"t">>, value |-> <<"2">>], [key |-> <<"u">>, value |-> <<"3">>]>>

\* the trees the forests are made of: a parent with a static child; a
\* parameter with a parameter child; the root with a static and a parameter
\* child; a parent with an index child.  Some routes define a meta, one of
\* them an empty one.
RouteTrees ==
    { Node("p", <<"a">>, <<Leaf("p.b", <<"b">>)>>),
      WithMeta(Node("x", <<":", "x">>, <<Leaf("x.y", <<":", "y">>)>>), LayoutMeta),
      Node("r", Root, <<WithMeta(Leaf("r.a", <<"a">>), TitleMeta),
                        WithMeta(Leaf("r.x", <<":", "x">>), << >>)>>),
      WithMeta(Node("i", <<"b">>, <<WithMeta(Leaf("i.index", Empty), TitleMeta)>>),
               LayoutMeta) }

\* every sequence of n trees
RECURSIVE ForestsOfLen(_)
ForestsOfLen(n) ==
    IF n = 0 THEN {<< >>}
    ELSE {<<t>> \o f : t \in RouteTrees, f \in ForestsOfLen(n - 1)}

Forests == UNION {ForestsOfLen(n) : n \in 0..MaxSiblings}

\* the full templates of those trees
Patterns ==
    { Root, <<"/", "a">>, <<"/", "a", "/", "b">>, <<"/", ":", "x">>,
      <<"/", ":", "x", "/", ":", "y">>, <<"/", "a", "/", ":", "x">> }

\* the segments of the pathnames: text, a segment that begins like the
\* segment "a" and goes on with an escaped "A", a "%" that escapes nothing,
\* and the empty segment of a doubled or trailing separator
PathSegments == {<<"a">>, <<"b">>, <<"a", "%", "4", "1">>, <<"%">>, Empty}

RECURSIVE SegmentsOfLen(_)
SegmentsOfLen(n) ==
    IF n = 0 THEN {<< >>}
    ELSE {<<g>> \o gs : g \in PathSegments, gs \in SegmentsOfLen(n - 1)}

Pathnames ==
    {JoinSegments(segs) : segs \in UNION {SegmentsOfLen(n) : n \in 0..MaxSegments}}

\* normalizePath(p) is called
NormalizePathCall(p) ==
    /\ call' = [op |-> "normalizePath", arg |-> p, result |-> normalizePath(p)]
    /\ UNCHANGED <<envVars, currentAdapter, listener, href, beforeGuards,
                   afterHooks, nav>>

\* the calls of the matcher made so far, each with what it returned
MatcherLog == IF "log" \in DOMAIN call THEN call.log ELSE << >>

\* the call of the matcher, with the two maps as the call leaves them
MatcherCall(op, input, result, caches) ==
    CHOOSE made \in
        { [op |-> op, input |-> in, result |-> res,
           pattern |-> in[1], routes |-> in[1], pathname |-> in[2],
           log |-> MatcherLog \o <<[op |-> op, input |-> in, result |-> res]>>,
           regexpCache |-> c.regexp, keysCache |-> c.keys] :
          in \in {input}, res \in {result}, c \in {caches} } : TRUE

Caches == [regexp |-> regexpCache, keys |-> keysCache]

\* extractParams(pattern, pathname) is called
ExtractParamsCall(pattern, p) ==
    /\ call' = MatcherCall("extractParams", <<pattern, p>>, extractParams(pattern, p),
                           AfterGetRegexp(Caches, pattern))
    /\ UNCHANGED <<envVars, currentAdapter, listener, href, beforeGuards,
                   afterHooks, nav>>

\* matchRoute(routes, pathname) is called, the prefix left to its default
MatchRouteCall(routes, p) ==
    /\ call' = MatcherCall("matchRoute", <<routes, p>>, matchRoute(routes, p, Empty),
                           AfterGetRegexps(Caches,
                               GetRegexpInMatchRoute(routes, 1, normalizePath(p),
                                                     Empty)))
    /\ UNCHANGED <<envVars, currentAdapter, listener, href, beforeGuards,
                   afterHooks, nav>>

\* findMatchingRoutes(routes, pathname) is called, the prefix left to its
\* default
FindMatchingRoutesCall(routes, p) ==
    /\ call' = MatcherCall("findMatchingRoutes", <<routes, p>>,
                           findMatchingRoutes(routes, p, Empty),
                           AfterGetRegexps(Caches,
                               GetRegexpInFindMatchingRoutes(routes, 1,
                                                             normalizePath(p), Empty)))
    /\ UNCHANGED <<envVars, currentAdapter, listener, href, beforeGuards,
                   afterHooks, nav>>

\* a clear that leaves the names of the parameters cached
Cleared_RegexpOnly(caches) == [regexp |-> {}, keys |-> caches.keys]

\* regexpCache.clear(); keysCache.clear()
Cleared(caches) == [regexp |-> {}, keys |-> {}]

\* clearMatcherCache() is called
ClearMatcherCacheCall ==
    /\ call' = MatcherCall("clearMatcherCache", <<Empty, Empty>>, "undefined",
                           Cleared(Caches))
    /\ UNCHANGED <<envVars, currentAdapter, listener, href, beforeGuards,
                   afterHooks, nav>>

\* The application after start-up; the matcher is a set of pure functions and
\* reads none of its state.
InitMatcher == InitRegistry

\* no function of the matcher has been called yet
NotCalled == call = NoCall

\* one call of a function of the matcher, on any of the inputs
NextMatcher ==
    \/ NotCalled /\ \E p \in PathStrings : NormalizePathCall(p)
    \/ NotCalled /\ \E pattern \in Patterns, p \in Pathnames :
                        ExtractParamsCall(pattern, p)
    \/ NotCalled /\ \E routes \in Forests, p \in Pathnames :
                        MatchRouteCall(routes, p)
    \/ NotCalled /\ \E routes \in Forests, p \in Pathnames :
                        FindMatchingRoutesCall(routes, p)

SpecMatcher == InitMatcher /\ [][NextMatcher]_vars

\* most calls of the matcher in one run
MaxMatcherCalls == 3

\* the forests, templates and pathnames of the runs of several calls
SomeForests ==
    {f \in Forests : /\ Len(f) > 0
                      /\ f[1].id = "x"
                      /\ \A k \in 2..Len(f) : f[k].id = "p" /\ k = 2}
SomePatterns == {<<"/", ":", "x", "/", ":", "y">>, <<"/", ":", "x">>}
SomePathnames == {<<"/", "a", "/", "b">>, <<"/", "a">>}

MayCallMatcher == Len(MatcherLog) < MaxMatcherCalls

\* extractParams, matchRoute, findMatchingRoutes and clearMatcherCache are
\* called in any order
NextCache ==
    \/ MayCallMatcher /\ \E pattern \in SomePatterns, p \in SomePathnames :
                             ExtractParamsCall(pattern, p)
    \/ MayCallMatcher /\ \E routes \in SomeForests, p \in SomePathnames :
                             MatchRouteCall(routes, p)
    \/ MayCallMatcher /\ \E routes \in SomeForests, p \in SomePathnames :
                             FindMatchingRoutesCall(routes, p)
    \/ MayCallMatcher /\ ClearMatcherCacheCall

SpecCache == InitMatcher /\ [][NextCache]_vars

(***************************************************************************)
(* router-mode.ts: the adapters, called directly at any location.          *)
(***************************************************************************)
\* most characters of a logical path after its leading "/"
MaxLogicalLen == 2

\* the characters of the logical paths: a letter, the separator, the dot of
\* the "." and ".." segments, and a character a URL cannot hold as it is
LogicalChars == {"a", "/", ".", " "}

RECURSIVE LogicalTails(_)
LogicalTails(n) ==
    IF n = 0 THEN {Empty}
    ELSE {<<c>> \o s : c \in LogicalChars, s \in LogicalTails(n - 1)}

\* the paths given to adapter.push and adapter.replace: they start with "/"
\* and hold neither "?" nor "#"
LogicalPaths ==
    {<<"/">> \o t : t \in UNION {LogicalTails(n) : n \in 0..MaxLogicalLen}}

\* the searches given to them: empty, or starting with "?"
Searches ==
    {Empty, <<"?">>, <<"?", "a">>, <<"?", "a", "#">>, <<"?", " ">>}

\* the configurations the adapters are created from: the clean-path adapter
\* without a base and with a base, with and without its trailing separator,
\* and the hash adapter
AdapterConfigs ==
    {[mode |-> "history", base |-> Empty],
     [mode |-> "history", base |-> <<"/">>],
     [mode |-> "history", base |-> <<"/", "a">>],
     [mode |-> "history", base |-> <<"/", "a", "/">>],
     [mode |-> "hash", base |-> Empty]}

\* the locations the page may be at
Locations ==
    [pathname : {Root, <<"/", "a">>, <<"/", "a", "/", "b">>,
                 <<"/", "b", "/", "a", "/", "c">>, <<"/", "a", "b">>},
     search : {Empty, <<"?", "q">>},
     hash : {Empty, <<"#", "/", "b">>, <<"#", "/", "b", "?", "c">>,
             <<"#", "?", "c">>, <<"#", "/", "b", "?", "c", "?", "d">>}]

\* The page is at any location and the adapter is created from any
\* configuration.
InitAdapter ==
    \E config \in AdapterConfigs, loc \in Locations :
        /\ entries = <<loc>>
        /\ idx = 1
        /\ pendingEvents = {}
        /\ currentAdapter = CreateRouterMode(config)
        /\ listener = SetupListener(CreateRouterMode(config))
        /\ href = LocationHref(loc)
        /\ beforeGuards = << >>
        /\ afterHooks = << >>
        /\ nav = [t \in {1} |-> Idle]
        /\ call = NoCall

\* adapter.push(path, search) is called
AdapterPushCall(path, search) ==
    LET env == AdapterPush(currentAdapter, entries, idx, path, search)
    IN  /\ entries' = env.entries
        /\ idx' = env.idx
        /\ pendingEvents' = env.events
        /\ call' = [op |-> "adapter.push", path |-> path, search |-> search]
        /\ UNCHANGED <<currentAdapter, listener, href, beforeGuards, afterHooks, nav>>

\* adapter.replace(path, search) is called
AdapterReplaceCall(path, search) ==
    LET env == AdapterReplace(currentAdapter, entries, idx, path, search)
    IN  /\ entries' = env.entries
        /\ idx' = env.idx
        /\ pendingEvents' = env.events
        /\ call' = [op |-> "adapter.replace", path |-> path, search |-> search]
        /\ UNCHANGED <<currentAdapter, listener, href, beforeGuards, afterHooks, nav>>

\* adapter.getCurrentPath() is called
GetCurrentPathCall ==
    /\ call' = [op |-> "getCurrentPath",
                result |-> GetCurrentPath(currentAdapter, Location)]
    /\ UNCHANGED <<envVars, currentAdapter, listener, href, beforeGuards,
                   afterHooks, nav>>

\* adapter.getCurrentSearch() is called
GetCurrentSearchCall ==
    /\ call' = [op |-> "getCurrentSearch",
                result |-> GetCurrentSearch(currentAdapter, Location)]
    /\ UNCHANGED <<envVars, currentAdapter, listener, href, beforeGuards,
                   afterHooks, nav>>

\* one call of a method of the adapter
NextAdapter ==
    \/ NotCalled /\ \E path \in LogicalPaths, search \in Searches :
                        AdapterPushCall(path, search)
    \/ NotCalled /\ \E path \in LogicalPaths, search \in Searches :
                        AdapterReplaceCall(path, search)
    \/ NotCalled /\ GetCurrentPathCall
    \/ NotCalled /\ GetCurrentSearchCall

SpecAdapter == InitAdapter /\ [][NextAdapter]_vars

(***************************************************************************)
(* navigation.ts: buildSearchString, called directly on any query.         *)
(***************************************************************************)
\* most keys of a query object
MaxQueryLen == 2

QueryKeys == {<<"a">>, <<"b">>, <<"&">>}

QueryValues ==
    {Undefined, NullValue, StringValue(Empty), StringValue(<<"x", " ">>),
     NumberValue(0), NumberValue(10), BooleanValue(FALSE), BooleanValue(TRUE)}

RECURSIVE EntriesOfLen(_)
EntriesOfLen(n) ==
    IF n = 0 THEN {<< >>}
    ELSE {es \o <<[key |-> k, value |-> v]>> :
             es \in EntriesOfLen(n - 1), k \in QueryKeys, v \in QueryValues}

\* the query arguments: none, or an object, whose keys differ, in key order
QueryObjects ==
    {NoQuery} \cup
    {[given |-> TRUE, entries |-> es] :
        es \in {e \in UNION {EntriesOfLen(n) : n \in 0..MaxQueryLen} :
                   \A i, j \in 1..Len(e) : e[i].key = e[j].key => i = j}}

\* buildSearchString(query) is called
BuildSearchStringCall(query) ==
    /\ call' = [op |-> "buildSearchString", query |-> query,
                result |-> buildSearchString(query)]
    /\ UNCHANGED <<envVars, currentAdapter, listener, href, beforeGuards,
                   afterHooks, nav>>

NextQuery == NotCalled /\ \E query \in QueryObjects : BuildSearchStringCall(query)

SpecQuery == InitRegistry /\ [][NextQuery]_vars

(***************************************************************************)
(* router-mode.ts: the singleton.  createRouterMode, getRouterMode and     *)
(* resetRouterMode are called in any order.  Every constructed adapter is  *)
(* an object of its own: the objects are numbered in the order of their    *)
(* construction, call.made is the number of objects constructed so far and *)
(* call.instance the number of the object currentAdapter refers to, 0 when *)
(* it is null.  call.log lists the calls made, each with the object it     *)
(* returned.                                                               *)
(***************************************************************************)
\* most calls of the three functions in one run
MaxCalls == 4

NoConfig == [mode |-> "none", base |-> Empty]

Log == IF call.op = "none" THEN << >> ELSE call.log
Made == IF call.op = "none" THEN 0 ELSE call.made
Instance == IF call.op = "none" THEN 0 ELSE call.instance

\* the module is loaded: currentAdapter is null
InitSingleton ==
    /\ entries = <<[pathname |-> Root, search |-> Empty, hash |-> Empty]>>
    /\ idx = 1
    /\ pendingEvents = {}
    /\ currentAdapter = Null
    /\ listener = SetupListener(Null)
    /\ href = LocationHref([pathname |-> Root, search |-> Empty, hash |-> Empty])
    /\ beforeGuards = << >>
    /\ afterHooks = << >>
    /\ nav = [t \in {1} |-> Idle]
    /\ call = NoCall

\* the call op, which returned the object numbered returned, is logged
Logged(op, config, returned, adapter, made, instance) ==
    [op |-> op,
     log |-> Log \o <<[op |-> op, config |-> config, returned |-> returned,
                       adapter |-> adapter]>>,
     made |-> made,
     instance |-> instance]

\* createRouterMode(config)
CreateRouterModeCall(config) ==
    /\ currentAdapter' = CreateRouterMode(config)
    /\ call' = Logged("createRouterMode", config, Made + 1,
                      CreateRouterMode(config), Made + 1, Made + 1)
    /\ UNCHANGED <<envVars, listener, href, beforeGuards, afterHooks, nav>>

\* a getRouterMode that constructs an adapter on every call
Constructs_Always(adapter) == TRUE

\* if (!currentAdapter)
Constructs(adapter) == adapter = Null

\* getRouterMode()
GetRouterModeCall ==
    /\ currentAdapter' =
           IF Constructs(currentAdapter) THEN HistoryModeAdapter(Empty)
           ELSE currentAdapter
    /\ call' =
           IF Constructs(currentAdapter)
           THEN Logged("getRouterMode", NoConfig, Made + 1,
                       HistoryModeAdapter(Empty), Made + 1, Made + 1)
           ELSE Logged("getRouterMode", NoConfig, Instance, currentAdapter,
                       Made, Instance)
    /\ UNCHANGED <<envVars, listener, href, beforeGuards, afterHooks, nav>>

\* resetRouterMode()
ResetRouterModeCall ==
    /\ currentAdapter' = Null
    /\ call' = Logged("resetRouterMode", NoConfig, 0, Null, Made, 0)
    /\ UNCHANGED <<envVars, listener, href, beforeGuards, afterHooks, nav>>

MayCall == Len(Log) < MaxCalls

NextSingleton ==
    \/ MayCall /\ \E config \in AdapterConfigs : CreateRouterModeCall(config)
    \/ MayCall /\ GetRouterModeCall
    \/ MayCall /\ ResetRouterModeCall

SpecSingleton == InitSingleton /\ [][NextSingleton]_vars

(***************************************************************************)
(* router-mode.ts: setupListener.  Callbacks are subscribed through the    *)
(* adapter, their cleanups are called, and the environment fires its       *)
(* events, in any order.  call.listeners is the event listener list of the *)
(* window, call.invoked counts, for the event fired last, the invocations  *)
(* of every callback, and call.log lists the calls made.                   *)
(***************************************************************************)
Callbacks == {"cb1", "cb2"}

EventTypes == {"popstate", "hashchange"}

Listeners == IF call.op = "none" THEN {} ELSE call.listeners

\* window.addEventListener(type, callback): a callback already in the list
\* for the type is not added again
AddEventListener(listeners, type, callback) ==
    listeners \cup {[type |-> type, callback |-> callback]}

\* a removal that empties the list of the type
RemoveEventListener_All(listeners, type, callback) ==
    {l \in listeners : l.type # type}

\* window.removeEventListener(type, callback)
RemoveEventListener(listeners, type, callback) ==
    listeners \ {[type |-> type, callback |-> callback]}

\* the page is at "/" and the adapter is created from any configuration
InitListener ==
    \E config \in AdapterConfigs :
        /\ entries = <<[pathname |-> Root, search |-> Empty, hash |-> Empty]>>
        /\ idx = 1
        /\ pendingEvents = {}
        /\ currentAdapter = CreateRouterMode(config)
        /\ listener = SetupListener(CreateRouterMode(config))
        /\ href = LocationHref([pathname |-> Root, search |-> Empty, hash |-> Empty])
        /\ beforeGuards = << >>
        /\ afterHooks = << >>
        /\ nav = [t \in {1} |-> Idle]
        /\ call = NoCall

ListenerCall(op, callback, type, listeners, invoked) ==
    [op |-> op,
     log |-> Log \o <<[op |-> op, callback |-> callback, type |-> type]>>,
     listeners |-> listeners,
     invoked |-> invoked]

NoneInvoked == [cb \in Callbacks |-> 0]

\* adapter.setupListener(callback)
SetupListenerCall(callback) ==
    /\ call' = ListenerCall("setupListener", callback, ListenerEvent(currentAdapter),
                            AddEventListener(Listeners, ListenerEvent(currentAdapter),
                                             callback),
                            NoneInvoked)
    /\ UNCHANGED <<envVars, currentAdapter, listener, href, beforeGuards,
                   afterHooks, nav>>

\* a cleanup that setupListener(callback) returned is called
CleanupCall(callback) ==
    /\ \E i \in 1..Len(Log) :
           Log[i].op = "setupListener" /\ Log[i].callback = callback
    /\ call' = ListenerCall("cleanup", callback, ListenerEvent(currentAdapter),
                            RemoveEventListener(Listeners, ListenerEvent(currentAdapter),
                                                callback),
                            NoneInvoked)
    /\ UNCHANGED <<envVars, currentAdapter, listener, href, beforeGuards,
                   afterHooks, nav>>

\* the environment fires an event of the type: every callback in the list for
\* the type is invoked once
FireEvent(type) ==
    /\ call' = ListenerCall("event", "none", type, Listeners,
                            [cb \in Callbacks |->
                                IF [type |-> type, callback |-> cb] \in Listeners
                                THEN 1 ELSE 0])
    /\ UNCHANGED <<envVars, currentAdapter, listener, href, beforeGuards,
                   afterHooks, nav>>

NextListener ==
    \/ MayCall /\ \E callback \in Callbacks : SetupListenerCall(callback)
    \/ MayCall /\ \E callback \in Callbacks : CleanupCall(callback)
    \/ MayCall /\ \E type \in EventTypes : FireEvent(type)

SpecListener == InitListener /\ [][NextListener]_vars

(***************************************************************************)
(* The matcher: claims C14 - C20.                                          *)
(***************************************************************************)
\* C14: normalizePath is idempotent: normalising the result of normalizePath
\* again gives the same string, for every input string (empty, only
\* separators, no leading separator, repeated and trailing separators).
C14_NormalizeIdempotent ==
    call.op = "normalizePath" => normalizePath(call.result) = call.result

\* normalizePath was applied to a string without a leading separator, with a
\* run of separators and a trailing separator, and changed it
C14_Witness ==
    /\ call.op = "normalizePath"
    /\ call.arg = <<"a", "/", "/", "b">> \/ call.arg = <<"a", "/", "/">>
    /\ call.result # call.arg

HasDoubledSlash(s) == \E i \in 1..(Len(s) - 1) : s[i] = "/" /\ s[i + 1] = "/"

\* C15: for every input string, normalizePath(p) starts with the separator,
\* holds no doubled separator, and ends with a separator only when it is
\* exactly "/"; the empty string and "/" both give "/".
C15_NormalizedShape ==
    call.op = "normalizePath" =>
        /\ StartsWith(call.result, <<"/">>)
        /\ ~HasDoubledSlash(call.result)
        /\ EndsWith(call.result, <<"/">>) => call.result = Root
        /\ call.arg \in {Empty, Root} => call.result = Root

\* normalizePath was applied to a string with a doubled and a trailing
\* separator and no leading one
C15_Witness ==
    /\ call.op = "normalizePath"
    /\ call.arg = <<"a", "/", "/">>
    /\ call.result = <<"/", "a">>

\* normalizePath was applied to the empty string
C15_WitnessEmpty ==
    /\ call.op = "normalizePath"
    /\ call.arg = Empty
    /\ call.result = Root

\* the places of the parameter segments among the segments of a template
ParamPlaces(template) ==
    Ascending({i \in 1..Len(TemplateSegments(template)) :
                  IsParam(TemplateSegments(template)[i])})

\* the pathname segment at the place of the k-th parameter segment
ParamSegment(template, pathname, k) ==
    SplitSlash(pathname)[ParamPlaces(template)[k] + 1]

\* the k-th parameter name of the template with that segment, percent-decoded
BoundBySegment(template, pathname) ==
    [k \in 1..Len(ParamPlaces(template)) |->
        [key |-> Tail(TemplateSegments(template)[ParamPlaces(template)[k]]),
         value |-> DecodeChars(ParamSegment(template, pathname, k))]]

HasEscape(s) == \E j \in 1..Len(s) : s[j] = "%"

\* C16: for a template with k parameter segments and a pathname matching it,
\* the params returned by extractParams and by matchRoute hold exactly k
\* entries, the i-th of them the i-th parameter name with the text of the
\* i-th captured segment (percent-decoded; the segment itself when it holds
\* no escape, as for "/users/:id" and an alphanumeric value), and no other
\* key.
C16_ParamsBoundInOrder ==
    /\ (/\ call.op = "extractParams"
        /\ RegexpTest(getRegexp(call.pattern), call.pathname)
        /\ ~call.result.threw) =>
           /\ call.result.params = BoundBySegment(call.pattern, call.pathname)
           /\ \A k \in 1..Len(call.result.params) :
                 ~HasEscape(ParamSegment(call.pattern, call.pathname, k)) =>
                     call.result.params[k].value =
                         ParamSegment(call.pattern, call.pathname, k)
    /\ (call.op = "matchRoute" /\ call.result.kind = "match") =>
           /\ call.result.params =
                  BoundBySegment(call.result.path, normalizePath(call.pathname))
           /\ \A k \in 1..Len(call.result.params) :
                 ~HasEscape(ParamSegment(call.result.path,
                                         normalizePath(call.pathname), k)) =>
                     call.result.params[k].value =
                         ParamSegment(call.result.path,
                                      normalizePath(call.pathname), k)

\* matchRoute bound two parameters, the second from an escaped segment
C16_Witness ==
    /\ call.op = "matchRoute"
    /\ call.pathname = <<"/", "a", "/", "a", "%", "4", "1">>
    /\ call.result.kind = "match"
    /\ call.result.params = <<[key |-> <<"x">>, value |-> <<"a">>],
                              [key |-> <<"y">>, value |-> <<"a", "A">>]>>

\* extractParams bound two parameters to two different segments
C16_WitnessExtract ==
    /\ call.op = "extractParams"
    /\ call.pathname = <<"/", "a", "/", "b">>
    /\ call.result = Params(<<[key |-> <<"x">>, value |-> <<"a">>],
                              [key |-> <<"y">>, value |-> <<"b">>]>>)

\* the parent with a static child, of RouteTrees
ParentChild == Node("p", <<"a">>, <<Leaf("p.b", <<"b">>)>>)

\* every node of a forest with its full template and the nodes below it
RECURSIVE NodesUnder(_, _)
NodesUnder(routes, prefix) ==
    UNION { LET fullPath == FullPath(prefix, routes[i].path)
                below == NodesUnder(routes[i].children, fullPath)
            IN  {[id |-> routes[i].id, fullPath |-> fullPath,
                  below |-> {[id |-> d.id, fullPath |-> d.fullPath] : d \in below}]}
                    \cup below
            : i \in 1..Len(routes) }

\* the template fully matches the normalised pathname
FullyMatches(fullPath, pathname) ==
    RegexpTest(getRegexp(fullPath), normalizePath(pathname))

\* the nodes of the forest that fully match the pathname together with one of
\* the nodes below them
MatchWithDescendant(routes, pathname) ==
    {n \in NodesUnder(routes, Empty) :
        /\ FullyMatches(n.fullPath, pathname)
        /\ \E d \in n.below : FullyMatches(d.fullPath, pathname)}

\* C17: for a parent with a child, both static and distinct, matchRoute on
\* "/parent/child" returns the child with path "/parent/child" and
\* findMatchingRoutes returns exactly [parent, child]; and whenever a node and
\* a node below it both fully match the pathname, matchRoute returns a node
\* below it and not the node.
C17_ChildIsMostSpecific ==
    /\ (/\ call.op = "matchRoute"
        /\ call.routes # << >>
        /\ call.routes[1] = ParentChild
        /\ normalizePath(call.pathname) = <<"/", "a", "/", "b">>) =>
           call.result = Matched(ParentChild.children[1], <<"/", "a", "/", "b">>, << >>)
    /\ (/\ call.op = "findMatchingRoutes"
        /\ call.routes # << >>
        /\ call.routes[1] = ParentChild
        /\ normalizePath(call.pathname) = <<"/", "a", "/", "b">>) =>
           call.result =
               Matches(<<Matched(ParentChild, <<"/", "a">>, << >>),
                         Matched(ParentChild.children[1],
                                 <<"/", "a", "/", "b">>, << >>)>>)
    /\ call.op = "matchRoute" =>
           \A n \in MatchWithDescendant(call.routes, call.pathname) :
               /\ call.result.kind = "match" => call.result.route # n.id
               /\ n.id = call.routes[1].id =>
                      /\ call.result.kind = "match"
                      /\ call.result.route \in {d.id : d \in n.below}

\* matchRoute returned the child of the parent for "/a/b"
C17_Witness ==
    /\ call.op = "matchRoute"
    /\ call.routes = <<ParentChild>>
    /\ call.pathname = <<"/", "a", "/", "b">>
    /\ call.result.route = "p.b"

\* findMatchingRoutes returned the parent and the child for "/a/b"
C17_WitnessList ==
    /\ call.op = "findMatchingRoutes"
    /\ call.routes = <<ParentChild>>
    /\ call.pathname = <<"/", "a", "/", "b">>
    /\ Len(call.result.matches) = 2

\* a route and its index child both matched, and the child was returned
C17_WitnessBoth ==
    /\ call.op = "matchRoute"
    /\ MatchWithDescendant(call.routes, call.pathname) # {}
    /\ call.result.route = "i.index"

\* C18: for every forest of well-formed templates and every pathname, validly
\* percent-encoded or not, matchRoute returns a match or null,
\* findMatchingRoutes a list and extractParams a mapping: no call raises.
C18_NeverRaises ==
    /\ call.op = "extractParams" => ~call.result.threw
    /\ call.op = "matchRoute" => call.result.kind \in {"match", "null"}
    /\ call.op = "findMatchingRoutes" => ~call.result.threw

\* the nodes of a forest in depth-first declaration order, each with the
\* prefix it is matched under
RECURSIVE Preorder(_, _)
Preorder(routes, prefix) ==
    IF routes = << >> THEN << >>
    ELSE <<[node |-> Head(routes), prefix |-> prefix]>>
             \o Preorder(Head(routes).children, FullPath(prefix, Head(routes).path))
             \o Preorder(Tail(routes), prefix)

\* what the subtree of a node of that order produces
SubtreeMatch(n, pathname) == matchRoute(<<n.node>>, pathname, n.prefix)

\* the first route of the list whose subtree produces a match; 0 if none does
FirstMatching(routes, pathname, prefix) ==
    IF \E i \in 1..Len(routes) : matchRoute(<<routes[i]>>, pathname, prefix) # None
    THEN CHOOSE i \in 1..Len(routes) :
            /\ matchRoute(<<routes[i]>>, pathname, prefix) # None
            /\ \A j \in 1..(i - 1) : matchRoute(<<routes[j]>>, pathname, prefix) = None
    ELSE 0

Reverse(q) == [k \in 1..Len(q) |-> q[Len(q) - k + 1]]

\* The result over a list of siblings is that of the first of them whose
\* subtree produces a match, whatever is declared after it: nothing, the same
\* siblings in another order, or one sibling more.
LaterSiblingsIrrelevant(routes, pathname, prefix) ==
    LET i == FirstMatching(routes, pathname, prefix)
        result == matchRoute(routes, pathname, prefix)
        upTo == SubSeq(routes, 1, i)
        after == SubSeq(routes, i + 1, Len(routes))
    IN  IF i = 0 THEN result = None
        ELSE /\ result = matchRoute(<<routes[i]>>, pathname, prefix)
             /\ result = matchRoute(upTo, pathname, prefix)
             /\ result = matchRoute(upTo \o Reverse(after), pathname, prefix)
             /\ \A t \in RouteTrees :
                   result = matchRoute(upTo \o <<t>> \o after, pathname, prefix)

\* C19: declaration order is the tie-break of matchRoute: the result comes
\* from the first node, in depth-first declaration order, whose subtree
\* produces a match, and removing, reordering or adding siblings declared
\* after that node, at the top level or among the children of a node, never
\* changes it.
C19_DeclarationOrderWins ==
    call.op = "matchRoute" =>
        LET order == Preorder(call.routes, Empty)
            winners == {k \in 1..Len(order) :
                           SubtreeMatch(order[k], call.pathname) # None}
        IN  /\ winners = {} => call.result = None
            /\ winners # {} =>
                   call.result =
                       SubtreeMatch(order[CHOOSE k \in winners :
                                              \A j \in winners : k <= j],
                                    call.pathname)
            /\ LaterSiblingsIrrelevant(call.routes, call.pathname, Empty)
            /\ \A k \in 1..Len(order) :
                   LaterSiblingsIrrelevant(
                       order[k].node.children, call.pathname,
                       FullPath(order[k].prefix, order[k].node.path))

\* the subtrees of two routes match "/a": the parameter declared first was
\* returned, not the static route declared after it
C19_Witness ==
    /\ call.op = "matchRoute"
    /\ Len(call.routes) = 2
    /\ call.routes[1].id = "x"
    /\ call.routes[2].id = "p"
    /\ call.pathname = <<"/", "a">>
    /\ call.result.route = "x"

\* two children of the root match "/a": the one declared first was returned
C19_WitnessNested ==
    /\ call.op = "matchRoute"
    /\ Len(call.routes) = 1
    /\ call.routes[1].id = "r"
    /\ call.pathname = <<"/", "a">>
    /\ call.result.route = "r.a"

\* C20: whenever matchRoute(routes, p) returns a match, findMatchingRoutes(
\* routes, p) is not empty and its last element is that match: the same
\* route, the same resolved path, the same params.
C20_LastIsMostSpecific ==
    (/\ call.op = "findMatchingRoutes"
     /\ matchRoute(call.routes, call.pathname, Empty).kind = "match") =>
        /\ ~call.result.threw
        /\ call.result.matches # << >>
        /\ call.result.matches[Len(call.result.matches)] =
               matchRoute(call.routes, call.pathname, Empty)

(***************************************************************************)
(* The matcher: claims C21, C29, C30.                                      *)
(***************************************************************************)
\* every route of a forest, at any depth
RECURSIVE RoutesOf(_)
RoutesOf(routes) ==
    UNION { {routes[i]} \cup RoutesOf(routes[i].children) : i \in 1..Len(routes) }

\* the meta a result for the route named id is to carry: the one the route
\* defines, the empty mapping if it defines none
OwnMeta(routes, id) ==
    LET route == CHOOSE r \in RoutesOf(routes) : r.id = id
    IN  IF route.meta.defined THEN route.meta.entries ELSE << >>

\* C21: the meta of every result of matchRoute and of every element of the
\* list of findMatchingRoutes is the matched route's own meta, nothing of an
\* ancestor's merged in and no key added or lost, and the empty mapping when
\* the route defines none.
C21_MetaIsOwnMeta ==
    /\ (call.op = "matchRoute" /\ call.result.kind = "match") =>
           call.result.meta = OwnMeta(call.routes, call.result.route)
    /\ (call.op = "findMatchingRoutes" /\ ~call.result.threw) =>
           \A k \in 1..Len(call.result.matches) :
               call.result.matches[k].meta =
                   OwnMeta(call.routes, call.result.matches[k].route)

\* findMatchingRoutes returned a parent with its meta and its index child
\* with another meta
C21_Witness ==
    /\ call.op = "findMatchingRoutes"
    /\ Len(call.result.matches) = 2
    /\ call.result.matches[1].route = "i"
    /\ call.result.matches[1].meta = LayoutMeta
    /\ call.result.matches[2].meta = TitleMeta

\* matchRoute returned a child that defines no meta, below a parent that
\* defines one: the meta of the result is empty
C21_WitnessNoMeta ==
    /\ call.op = "matchRoute"
    /\ call.result.route = "x.y"
    /\ call.result.meta = << >>

\* C29: a top-level route whose path is "/" is a passthrough in matchRoute:
\* its children are matched first, with prefix "/", and a matching child is
\* returned; the root route itself is returned only when no child matches
\* and the normalised pathname is "/"; for any other pathname without a
\* matching child it contributes nothing and matching goes on with the next
\* sibling.
C29_RootIsPassthrough ==
    call.op = "matchRoute" =>
        \A k \in 1..Len(call.routes) :
            (/\ call.routes[k].path = Root
             /\ matchRoute(SubSeq(call.routes, 1, k - 1), call.pathname, Empty) = None) =>
                LET root == call.routes[k]
                    child == matchRoute(root.children, call.pathname, Root)
                    later == SubSeq(call.routes, k + 1, Len(call.routes))
                IN  /\ child # None => call.result = child
                    /\ (child = None /\ normalizePath(call.pathname) = Root) =>
                           /\ call.result.kind = "match"
                           /\ call.result.route = root.id
                           /\ call.result.path = Root
                           /\ call.result.params = << >>
                    /\ (child = None /\ normalizePath(call.pathname) # Root) =>
                           /\ call.result = matchRoute(later, call.pathname, Empty)
                           /\ call.result.kind = "match" =>
                                  call.result.route \in
                                      {r.id : r \in RoutesOf(later)}

\* no child of the root matched "/a/b": the child of the next sibling was
\* returned
C29_Witness ==
    /\ call.op = "matchRoute"
    /\ Len(call.routes) = 2
    /\ call.routes[1].id = "r"
    /\ call.routes[2].id = "p"
    /\ call.pathname = <<"/", "a", "/", "b">>
    /\ call.result.route = "p.b"

\* the root itself was returned for a pathname that normalises to "/"
C29_WitnessRoot ==
    /\ call.op = "matchRoute"
    /\ Len(call.routes) = 1
    /\ call.routes[1].id = "r"
    /\ call.pathname = <<"/", "/">>
    /\ call.result.route = "r"

\* the first child of the root was returned
C29_WitnessChild ==
    /\ call.op = "matchRoute"
    /\ Len(call.routes) = 1
    /\ call.routes[1].id = "r"
    /\ call.pathname = <<"/", "a">>
    /\ call.result.route = "r.a"

\* the routes that do not fully match the pathname while a route below them
\* does
LayoutContainers(routes, pathname) ==
    {n \in NodesUnder(routes, Empty) :
        /\ ~FullyMatches(n.fullPath, pathname)
        /\ \E d \in n.below : FullyMatches(d.fullPath, pathname)}

\* C30: matchRoute returns the match of a descendant whenever the full path
\* of the descendant fully matches the pathname, even when the full path of
\* its ancestor does not (the ancestor is a layout container); the params of
\* the result hold the parameters bound by the ancestors' segments of the
\* full template.
C30_LayoutContainer ==
    call.op = "matchRoute" =>
        \A n \in LayoutContainers(call.routes, call.pathname) :
            /\ call.result # None
            /\ ~MalformedURI(call.pathname) => call.result.kind = "match"
            /\ call.result.kind = "match" =>
                   /\ call.result.route # n.id
                   /\ FullyMatches(call.result.path, call.pathname)
                   /\ call.result.params =
                          BoundBySegment(call.result.path,
                                         normalizePath(call.pathname))
            /\ (n.id = call.routes[1].id /\ call.result.kind = "match") =>
                   call.result.route \in {d.id : d \in n.below}

\* the parameter route did not match "/a/b", its child did: the child was
\* returned with the parameter of the parent and its own
C30_Witness ==
    /\ call.op = "matchRoute"
    /\ Len(call.routes) = 1
    /\ call.routes[1].id = "x"
    /\ call.pathname = <<"/", "a", "/", "b">>
    /\ call.result.route = "x.y"
    /\ call.result.params = <<[key |-> <<"x">>, value |-> <<"a">>],
                              [key |-> <<"y">>, value |-> <<"b">>]>>

(***************************************************************************)
(* The adapters: claims C22 - C24.                                         *)
(***************************************************************************)
Wrote == call.op \in {"adapter.push", "adapter.replace"}

\* the adapter reports the path and the search it was given
RoundTrip ==
    /\ GetCurrentPath(currentAdapter, Location) = call.path
    /\ GetCurrentSearch(currentAdapter, Location) = call.search

HasChar(s, c) == \E i \in 1..Len(s) : s[i] = c

\* no segment of the path is "." or ".."
NoDotSegment(path) ==
    \A k \in 1..Len(SplitSlash(path)) :
        SplitSlash(path)[k] \notin {<<".">>, <<".", ".">>}

\* what the URL parser stores as it is given: for both adapters, text without
\* a character it percent-encodes; for the clean-path adapter, moreover, a
\* path without "." and ".." segments and a search that is empty or holds
\* more than the "?" and no "#"
StoredAsGiven ==
    /\ ~HasChar(call.path, " ")
    /\ ~HasChar(call.search, " ")
    /\ currentAdapter.mode = "history" =>
           /\ NoDotSegment(call.path)
           /\ call.search # <<"?">>
           /\ ~HasChar(call.search, "#")

C22_WitnessHash ==
    /\ call.op = "adapter.replace"
    /\ currentAdapter.mode = "hash"
    /\ call.path = <<"/", "a">>
    /\ call.search = <<"?", "a">>
    /\ RoundTrip

\* the text s without its leading prefix, s itself when it does not begin
\* with the prefix
DropPrefix(s, prefix) ==
    IF StartsWith(s, prefix) THEN SliceFrom(s, Len(prefix)) ELSE s

\* C23: with the clean-path adapter of base B, getCurrentPath() is the
\* pathname of the location with its leading prefix B removed; a pathname
\* that does not begin with B is returned unchanged, and an empty result
\* yields "/".
C23_OnlyPrefixRemoved ==
    (call.op = "getCurrentPath" /\ currentAdapter.mode = "history") =>
        call.result = OrRoot(DropPrefix(Location.pathname, currentAdapter.base))

\* the content of the fragment of the location, without its "#"
Fragment == SliceFrom(Location.hash, 1)

\* the place of the first "?" of f, one past its end when it has none
FirstMarker(f) ==
    CHOOSE k \in 1..(Len(f) + 1) :
        /\ k = Len(f) + 1 \/ f[k] = "?"
        /\ \A j \in 1..(k - 1) : f[j] # "?"

PathPart(f) == SubSeq(f, 1, FirstMarker(f) - 1)
SearchPart(f) == SubSeq(f, FirstMarker(f), Len(f))

\* C24: with the hash adapter, getCurrentPath() is the fragment up to its
\* first "?" ("/" when that part is empty) and getCurrentSearch() is the
\* fragment from its first "?" on (empty when it has none); the two joined
\* are the fragment when the path part is not empty; the pathname and the
\* literal query of the location have no influence on either.
C24_FragmentSplitAtFirstMarker ==
    (currentAdapter.mode = "hash" /\ call.op \in {"getCurrentPath", "getCurrentSearch"}) =>
        LET path == IF call.op = "getCurrentPath" THEN call.result
                    ELSE GetCurrentPath(currentAdapter, Location)
            search == IF call.op = "getCurrentSearch" THEN call.result
                      ELSE GetCurrentSearch(currentAdapter, Location)
        IN  /\ path = OrRoot(PathPart(Fragment))
            /\ search = SearchPart(Fragment)
            /\ PathPart(Fragment) # Empty => path \o search = Fragment
            /\ Fragment = Empty => path = Root /\ search = Empty
            /\ \A u \in Locations :
                   u.hash = Location.hash =>
                       /\ GetCurrentPath(currentAdapter, u) = path
                       /\ GetCurrentSearch(currentAdapter, u) = search

\* the path is read from a fragment with two "?", at a location that has a
\* literal query
C24_Witness ==
    /\ currentAdapter.mode = "hash"
    /\ call.op = "getCurrentPath"
    /\ Location.hash = <<"#", "/", "b", "?", "c", "?", "d">>
    /\ Location.search = <<"?", "q">>
    /\ call.result = <<"/", "b">>
    /\ GetCurrentSearch(currentAdapter, Location) = <<"?", "c", "?", "d">>

\* the search is read from an empty fragment, at a location that has a
\* pathname and a literal query
C24_WitnessEmpty ==
    /\ currentAdapter.mode = "hash"
    /\ call.op = "getCurrentSearch"
    /\ Location.hash = Empty
    /\ Location.pathname = <<"/", "a", "/", "b">>
    /\ Location.search = <<"?", "q">>
    /\ call.result = Empty
    /\ GetCurrentPath(currentAdapter, Location) = Root

(***************************************************************************)
(* buildSearchString: claim C27.                                           *)
(***************************************************************************)
\* the places of the entries of es whose value is neither undefined nor null
Present(es) == {i \in 1..Len(es) : es[i].value.t \notin {"undefined", "null"}}

\* the text of key=value
Pair(e) ==
    EncodeURIComponent(e.key) \o <<"=">> \o EncodeURIComponent(StringOf(e.value))

\* the pairs of the entries of es at the places of the sequence at, each
\* but the first after a "&"
RECURSIVE Pairs(_, _)
Pairs(es, at) ==
    IF at = << >> THEN Empty
    ELSE Pairs(es, SubSeq(at, 1, Len(at) - 1))
             \o (IF Len(at) > 1 THEN <<"&">> ELSE Empty)
             \o Pair(es[at[Len(at)]])

\* C27: buildSearchString(query) omits exactly the keys whose value is
\* undefined or null and keeps every other key (false, 0 and '' included), as
\* percent-encoded key=value pairs in the order of the keys, joined by "&"
\* after a "?"; it returns '' when the query is absent, empty, or has no key
\* left.
C27_OmitsExactlyAbsentValues ==
    call.op = "buildSearchString" =>
        LET es == call.query.entries
        IN  IF ~call.query.given \/ Present(es) = {}
            THEN call.result = Empty
            ELSE call.result = <<"?">> \o Pairs(es, Ascending(Present(es)))

\* false and '' are kept
C27_Witness ==
    /\ call.op = "buildSearchString"
    /\ call.query.given
    /\ call.query.entries = <<[key |-> <<"a">>, value |-> BooleanValue(FALSE)],
                              [key |-> <<"b">>, value |-> StringValue(Empty)]>>
    /\ call.result = <<"?", "a", "=", "f", "a", "l", "s", "e", "&", "b", "=">>

\* 0 is kept and null is omitted; the key is percent-encoded
C27_WitnessZero ==
    /\ call.op = "buildSearchString"
    /\ call.query.given
    /\ call.query.entries = <<[key |-> <<"a">>, value |-> NullValue],
                              [key |-> <<"&">>, value |-> NumberValue(0)]>>
    /\ call.result = <<"?", "%", "2", "6", "=", "0">>

\* every key is omitted
C27_WitnessNone ==
    /\ call.op = "buildSearchString"
    /\ call.query.given
    /\ Len(call.query.entries) = 2
    /\ Present(call.query.entries) = {}
    /\ call.result = Empty

(***************************************************************************)
(* The singleton: claim C25.                                               *)
(***************************************************************************)
Greatest(S) == CHOOSE i \in S : \A j \in S : j <= i
Least(S) == CHOOSE i \in S : \A j \in S : i <= j

\* the place of the last resetRouterMode of the log, 0 when it has none
LastReset(log) ==
    Greatest({0} \cup {i \in 1..Len(log) : log[i].op = "resetRouterMode"})

\* the places of the calls of op since the last reset
Since(log, op) == {i \in (LastReset(log) + 1)..Len(log) : log[i].op = op}

\* C25: getRouterMode() returns the adapter created by the most recent
\* createRouterMode since the last reset, the same object and of the
\* configured mode; when there is none, the first getRouterMode since the last
\* reset constructs a clean-path adapter with an empty base, and every later
\* call returns that same object until the next create or reset.
C25_SingletonIsLatestCreated ==
    call.op = "getRouterMode" =>
        LET log == call.log
            this == log[Len(log)]
            creates == Since(log, "createRouterMode")
            first == log[Least(Since(log, "getRouterMode"))]
        IN  IF creates # {}
            THEN /\ this.returned = log[Greatest(creates)].returned
                 /\ this.adapter.mode =
                        (IF log[Greatest(creates)].config.mode = "hash"
                         THEN "hash" ELSE "history")
                 /\ \A i \in 1..(Greatest(creates) - 1) :
                        log[i].returned # this.returned
            ELSE /\ this.returned = first.returned
                 /\ this.returned # 0
                 /\ this.adapter = [mode |-> "history", base |-> Empty]
                 /\ \A i \in 1..LastReset(log) : log[i].returned # this.returned

\* created in hash mode, reset, then read twice: the second read returns the
\* object the first one constructed
C25_Witness ==
    /\ call.op = "getRouterMode"
    /\ Len(call.log) = 4
    /\ call.log[1].op = "createRouterMode" /\ call.log[1].config.mode = "hash"
    /\ call.log[2].op = "resetRouterMode"
    /\ call.log[3].op = "getRouterMode"
    /\ call.log[3].returned = 2
    /\ call.log[4].returned = 2
    /\ currentAdapter = [mode |-> "history", base |-> Empty]

\* read, then created in hash mode, then read: the created object is returned
C25_WitnessCreated ==
    /\ call.op = "getRouterMode"
    /\ Len(call.log) = 3
    /\ call.log[1].op = "getRouterMode" /\ call.log[1].returned = 1
    /\ call.log[2].op = "createRouterMode" /\ call.log[2].config.mode = "hash"
    /\ call.log[3].returned = 2
    /\ call.log[3].adapter.mode = "hash"

(***************************************************************************)
(* setupListener: claim C26.                                               *)
(***************************************************************************)
\* the callback has been subscribed and no cleanup of it was called since
StillSubscribed(log, callback) ==
    \E i \in 1..Len(log) :
        /\ log[i].op = "setupListener" /\ log[i].callback = callback
        /\ \A j \in (i + 1)..Len(log) :
               ~(log[j].op = "cleanup" /\ log[j].callback = callback)

\* C26: the cleanup returned by setupListener(cb) unsubscribes exactly cb:
\* the events fired later do not invoke cb, and invoke every other callback
\* that is still subscribed once each; the clean-path adapter subscribes to
\* popstate only and the hash adapter to hashchange only.
C26_CleanupUnsubscribesExactlyCb ==
    call.op = "event" =>
        \A cb \in Callbacks :
            call.invoked[cb] =
                IF /\ StillSubscribed(call.log, cb)
                   /\ call.log[Len(call.log)].type =
                          (IF currentAdapter.mode = "hash" THEN "hashchange"
                           ELSE "popstate")
                THEN 1 ELSE 0

\* both callbacks were subscribed, the cleanup of cb1 was called, and the
\* event invokes cb2 and not cb1
C26_Witness ==
    /\ call.op = "event"
    /\ Len(call.log) = 4
    /\ call.log[1].op = "setupListener" /\ call.log[1].callback = "cb1"
    /\ call.log[2].op = "setupListener" /\ call.log[2].callback = "cb2"
    /\ call.log[3].op = "cleanup" /\ call.log[3].callback = "cb1"
    /\ call.invoked = [cb \in Callbacks |-> IF cb = "cb2" THEN 1 ELSE 0]

\* the callback subscribed through the hash adapter is not invoked by popstate
C26_WitnessOtherEvent ==
    /\ call.op = "event"
    /\ currentAdapter.mode = "hash"
    /\ StillSubscribed(call.log, "cb1")
    /\ call.log[Len(call.log)].type = "popstate"
    /\ call.invoked["cb1"] = 0

(***************************************************************************)
(* Overlapping navigations: claim C28.                                     *)
(***************************************************************************)
\* the call number t has committed
Committed(t) == nav[t].pc = "done" /\ nav[t].result = "true"

\* C28: overlapping navigations are not serialized.  When the second call of
\* push / replace, made while the first was suspended awaiting a guard, has
\* committed first, the first call still commits when its guards have allowed
\* it, and its commit overwrites: the environment URL and the URL state then
\* encode the target of the first call.
C28_LastCommitWins ==
    [][(Committed(2) /\ StepOf(1)) =>
          /\ (nav[1].pc = "resume" /\ nav[1].guardResult = True) => Ends(1, "true")
          /\ Ends(1, "true") =>
                 /\ GetCurrentPath(nav[1].adapter, entries'[idx']) = nav[1].to
                 /\ GetCurrentSearch(nav[1].adapter, entries'[idx']) =
                        buildSearchString(nav[1].query)
                 /\ href' = LocationHref(entries'[idx'])]_vars

\* push("/admin") was suspended, push("/login", {q: 1}) was made and
\* committed, then push("/admin") committed: the location is "/admin"
C28_Witness ==
    /\ Committed(1) /\ Committed(2)
    /\ nav[1].op = "push" /\ nav[1].origTo = Admin /\ ~nav[1].redirected
    /\ nav[2].op = "push" /\ nav[2].origTo = Login /\ ~nav[2].redirected
    /\ nav[2].query = OneQuery
    /\ Len(entries) = 3 /\ idx = 3
    /\ GetCurrentPath(nav[2].adapter, entries[2]) = Login
    /\ GetCurrentPath(nav[1].adapter, Location) = Admin
    /\ GetCurrentSearch(nav[1].adapter, Location) = Empty
    /\ href = LocationHref(Location)

(***************************************************************************)
(* The matcher: claims C31, C32.                                           *)
(***************************************************************************)
\* the template matches the first segments of the normalised pathname: the
\* pathname goes on, after them, with a separator or not at all
OnSegmentBoundary(fullPath, normalizedPathname) ==
    \E n \in 0..Len(normalizedPathname) :
        /\ n = Len(normalizedPathname) \/ normalizedPathname[n + 1] = "/"
        /\ RegexpTest(getRegexp(fullPath), OrRoot(SubSeq(normalizedPathname, 1, n)))

\* C31: findMatchingRoutes reports a match only when one exists: the full
\* template of the last element of a result fully matches the pathname, a node
\* is included as an ancestor only on a segment boundary, and the result is
\* empty whenever matchRoute returns none.
C31_MatchOnlyWhenOneExists ==
    (call.op = "findMatchingRoutes" /\ ~call.result.threw) =>
        LET ms == call.result.matches
        IN  /\ ms # << >> => FullyMatches(ms[Len(ms)].path, call.pathname)
            /\ \A k \in 1..Len(ms) :
                   OnSegmentBoundary(ms[k].path, normalizePath(call.pathname))
            /\ matchRoute(call.routes, call.pathname, Empty) = None => ms = << >>

\* every node of a forest with the templates of its ancestors and its own,
\* joined each after a separator
RECURSIVE Templates(_, _)
Templates(routes, above) ==
    UNION { LET joined == above \o <<"/">> \o routes[i].path
            IN  {[id |-> routes[i].id, joined |-> joined]}
                    \cup Templates(routes[i].children, joined)
            : i \in 1..Len(routes) }

\* the fully resolved template of the node named id
ResolvedTemplates(routes, id) ==
    {normalizePath(n.joined) : n \in {t \in Templates(routes, Empty) : t.id = id}}

\* the results of the call: the one of matchRoute, the elements of the list of
\* findMatchingRoutes
ResultsOfCall ==
    IF call.op = "matchRoute"
    THEN IF call.result.kind = "match" THEN {call.result} ELSE {}
    ELSE IF call.op = "findMatchingRoutes"
    THEN {call.result.matches[k] : k \in 1..Len(call.result.matches)}
    ELSE {}

\* C32: the path of every result is the fully resolved template of the
\* matched node, the normalised concatenation of the templates of its
\* ancestors and its own, and not the pathname: it is the same for every
\* pathname that matches the node.
C32_PathIsResolvedTemplate ==
    \A res \in ResultsOfCall : ResolvedTemplates(call.routes, res.route) = {res.path}

\* the parameter child matched "/a/b" and its path is "/:x/:y"
C32_Witness ==
    /\ call.op = "matchRoute"
    /\ call.pathname = <<"/", "a", "/", "b">>
    /\ Len(call.routes) = 1
    /\ call.result.kind = "match"
    /\ call.result.route = "x.y"
    /\ call.result.path = <<"/", ":", "x", "/", ":", "y">>

\* the same node matched another pathname, with the same path
C32_WitnessOther ==
    /\ call.op = "matchRoute"
    /\ call.pathname = <<"/", "b", "/", "a">>
    /\ Len(call.routes) = 1
    /\ call.result.kind = "match"
    /\ call.result.route = "x.y"
    /\ call.result.path = <<"/", ":", "x", "/", ":", "y">>

\* the child of the root matched, and its path does not double the separator
C32_WitnessRoot ==
    /\ call.op = "findMatchingRoutes"
    /\ call.pathname = <<"/", "a">>
    /\ Len(call.result.matches) = 2
    /\ call.result.matches[1].path = Root
    /\ call.result.matches[2].route = "r.a"
    /\ call.result.matches[2].path = <<"/", "a">>

(***************************************************************************)
(* The caches of the matcher: claim C33.                                   *)
(***************************************************************************)
MapKeys(map) == {e.path : e \in map}

\* C33: after any sequence of matchRoute, findMatchingRoutes, extractParams
\* and clearMatcherCache calls, the matcher cache and the parameter-name cache
\* have the same keys; clearMatcherCache leaves both empty; and a call made
\* again, after a clear or not, returns what the same call returned before.
C33_CachesInStep ==
    /\ MapKeys(regexpCache) = MapKeys(keysCache)
    /\ call.op = "clearMatcherCache" => regexpCache = {} /\ keysCache = {}
    /\ \A i, j \in 1..Len(MatcherLog) :
           (/\ MatcherLog[i].op = MatcherLog[j].op
            /\ MatcherLog[i].input = MatcherLog[j].input) =>
               MatcherLog[i].result = MatcherLog[j].result

\* extractParams bound two parameters, the caches were cleared, and the same
\* call bound them again and filled both caches
C33_Witness ==
    /\ Len(MatcherLog) = 3
    /\ MatcherLog[1].op = "extractParams"
    /\ MatcherLog[1].input = <<<<"/", ":", "x", "/", ":", "y">>, <<"/", "a", "/", "b">>>>
    /\ Len(MatcherLog[1].result.params) = 2
    /\ MatcherLog[2].op = "clearMatcherCache"
    /\ MatcherLog[3] = MatcherLog[1]
    /\ MapKeys(regexpCache) = {<<"/", ":", "x", "/", ":", "y">>}
    /\ MapKeys(keysCache) = {<<"/", ":", "x", "/", ":", "y">>}

\* matchRoute filled the caches with the templates of two routes, and a
\* second call found them there
C33_WitnessCached ==
    /\ Len(MatcherLog) = 2
    /\ MatcherLog[1].op = "matchRoute"
    /\ MatcherLog[2].op = "findMatchingRoutes"
    /\ MatcherLog[2].input = MatcherLog[1].input
    /\ MatcherLog[1].input[2] = <<"/", "a">>
    /\ MatcherLog[1].result.kind = "match"
    /\ Cardinality(MapKeys(regexpCache)) = 2
    /\ Len(MatcherLog[2].result.matches) = 1

(***************************************************************************)
(* The registry during a run of the guards: claim C34.                     *)
(***************************************************************************)
\* the guards registered when the run of runGuards began
RegisteredAtStart == SubSeq(GuardNames, 1, 2)

\* C34: the guards one call of runGuards invokes are exactly, in order, the
\* guards that were registered when the call began, up to the first one that
\* cancels or redirects: registering, removing or clearing guards while the
\* call is suspended in a guard does not change which guards it invokes, and
\* a guard that removes itself does not make the call skip the next one.
C34_GuardsFixedAtCallStart ==
    LET r == nav[1]
    IN  r.pc # "idle" =>
            /\ Len(r.calls) <= Len(RegisteredAtStart)
            /\ \A i \in 1..Len(r.calls) : r.calls[i].g = RegisteredAtStart[i]
            /\ (r.pc \in {"resume", "done"} /\ r.guardResult = True) =>
                   Len(r.calls) = Len(RegisteredAtStart)

(***************************************************************************)
(* Overlapping navigations: claim C35.                                     *)
(***************************************************************************)
\* C35: under every interleaving of overlapping calls of push / replace, the
\* `from` a successful navigation passes to its after-hooks is the logical
\* path that the environment encoded immediately before this navigation's
\* own mutation of the environment.
C35_FromIsPathBeforeOwnWrite ==
    [][\A t \in Navs :
          Ends(t, "true") =>
              /\ Len(nav'[t].hooks) = Len(afterHooks)
              /\ \A i \in 1..Len(nav'[t].hooks) :
                     nav'[t].hooks[i].from = GetCurrentPath(nav[t].adapter, Location)]_vars

(***************************************************************************)
(* The subscription of the URL state: claim C36.                           *)
(***************************************************************************)
\* the step is a traversal of the session history by the user
Traversed == idx' # idx /\ entries' = entries /\ nav' = nav

\* C36: after createRouterMode(config) has changed the active adapter, the
\* URL state reacts to the external events of the new adapter without any
\* further call: an external event of the kind of the active adapter
\* (hashchange in hash mode, popstate in clean-path mode) sets href to the
\* current URL of the environment.
C36_ListenerFollowsMode ==
    [][(/\ call.op = "createRouterMode"
        /\ call.changed
        /\ Traversed
        /\ ListenerEvent(currentAdapter) \in TraversalEvents(entries, idx, idx')) =>
           href' = LocationHref(entries[idx'])]_vars

(***************************************************************************)
(* Termination of a navigation: claim C37.                                 *)
(***************************************************************************)
\* the call of push / replace has been made and its promise is not settled
InProgress == nav[1].pc \in {"guard", "resume"}

\* the promise of the call is resolved with true or with false
Resolved == nav[1].pc = "done" /\ nav[1].result \in {"true", "false"}

\* C37: when every registered guard completes each of its invocations in
\* finitely many steps, every call of push / replace eventually resolves to
\* true or to false: the chain of the redirects of the guards is finite.
C37_NavigationResolves == InProgress ~> Resolved

(***************************************************************************)
(* The remove function called again: claim C38.                            *)
(***************************************************************************)
\* C38: the remove function a registration returned is idempotent and
\* removes at most one element of the registry over all its calls: calling
\* it a second time changes nothing, also when the same guard has been
\* registered more than once (the other registration stays registered and
\* is invoked by the runs that follow).
C38_RemoveTwiceRemovesOnce ==
    [][(call'.op = "remove" /\ call'.again) => beforeGuards' = beforeGuards]_vars

(***************************************************************************)
(* The URL state between the tasks: claim C39.                             *)
(***************************************************************************)
\* C39: in every state that the calls of push and replace and the
\* completions of their guards reach, interleaved in any way, with either
\* adapter and without a traversal by the user, href is the full URL of the
\* environment: in no state between two tasks has a navigation changed the
\* location while the URL state holds the URL from before.
C39_HrefIsCurrentUrl == href = LocationHref(Location)

\* a push has committed in hash mode while the other call is suspended
\* awaiting its guard, and the change event of the commit is still queued
C39_Witness ==
    /\ Committed(2)
    /\ nav[2].adapter.mode = "hash"
    /\ nav[2].op = "push"
    /\ nav[1].pc = "guard"
    /\ pendingEvents # {}
    /\ Location # InitialLocation(nav[2].adapter)

\* two overlapping navigations have both committed in clean-path mode, the
\* first call after the second
C39_WitnessBoth ==
    /\ Committed(1) /\ Committed(2)
    /\ nav[1].adapter.mode = "history"
    /\ nav[1].to # nav[2].to
    /\ GetCurrentPath(nav[1].adapter, Location) = nav[1].to
    /\ Len(nav[1].hooks) = 1 /\ Len(nav[2].hooks) = 1
    /\ nav[1].hooks[1].from = nav[2].hooks[1].from

====
